---- MODULE Spec2Model ----
(***************************************************************************)
(* Model of the publish orchestration subsystem of tiktok-shop-affiliate:  *)
(* the token manager (TikTokTokenManager), the publish state machine       *)
(* (TikTokPoster, post_product), the post-text generator (parse_response,  *)
(* validate_post_text, generate_post_text), the rotation selector          *)
(* (get_products_for_posting) and the orchestrator (run_single_post).      *)
(*                                                                         *)
(* Time is an integer number of seconds.  Python's None is the string      *)
(* "None"; a key that a JSON object does not carry is "ABSENT" (strings)   *)
(* or -1 (numbers).                                                        *)
(***************************************************************************)
EXTENDS Integers, Sequences, FiniteSets, TLC

\* ------------------------------------------------------------------ bounds
\* every specification starts its clock at StartNow; the clock of the
\* token-manager specification runs up to MaxNow
StartNow == 2
MaxNow == 4
\* wait_for_publish is called with timeouts 0..MaxTimeout and intervals
\* 1..MaxInterval; one status request takes 0..MaxPollTime seconds
MaxTimeout == 4
MaxInterval == 2
MaxPollTime == 1
\* generate_post_text is called with max_retries 0..MaxRetries
MaxRetries == 2
\* the store-operations specification stops publishing a product at
\* post_count MaxPosts and stops logging at MaxLog entries
MaxPosts == 2
MaxLog == 2
MaxRuns == 3
MaxCount == 5

\* ------------------------------------------------------- program constants
\* result.get("expires_in", 86400)
DEFAULT_EXPIRES_IN == 86400

\* --------------------------------------------------------- value encoding
None == "None"
ABSENT == "ABSENT"
ABSENT_INT == -1

\* Python truthiness of an optional string
Falsy(x) == x \in {None, ""}

\* expires_at as stored in the file: missing/None, a string that
\* datetime.fromisoformat rejects, or the isoformat() of a time
NoExpiry == [tag |-> "none", t |-> 0]
BadExpiry == [tag |-> "bad", t |-> 0]

\* datetime.isoformat(): the text of a naive timestamp
isoformat(t) == [tag |-> "iso", t |-> t]

\* datetime.fromisoformat(): defined on isoformat() texts only, raises otherwise
fromisoformat_raises(e) == e.tag # "iso"
fromisoformat(e) == e.t

\* the content of the credential file / of the in-memory cache self._tokens
\*   kind "absent"  : the file does not exist
\*   kind "corrupt" : the file cannot be opened or is not JSON
\*   kind "empty"   : the JSON object {}
\*   kind "nondict" : a JSON value that is not an object (a non-empty list)
\*   kind "record"  : a credential record
\*   kind "none"    : (cache only) self._tokens is None
Blank(k) ==
    [kind |-> k, access_token |-> None, refresh_token |-> None,
     expires_at |-> NoExpiry, open_id |-> None]

Record(at, rt, e, oid) ==
    [kind |-> "record", access_token |-> at, refresh_token |-> rt,
     expires_at |-> e, open_id |-> oid]

\* Python truthiness of a loaded JSON value / of the cache
Truthy(v) == v.kind \in {"nondict", "record"}

\* ------------------------------------------------------------------ state
VARIABLES
    oob,      \* config.TIKTOK_ACCESS_TOKEN ("" when not configured)
    file,     \* content of TOKENS_FILE_PATH
    tokens,   \* TikTokTokenManager._tokens
    now,      \* the clock (datetime.now(), time.time())
    tm,       \* the last call of get_access_token: inputs, effects, result
    ip,       \* the last call of init_photo_post: effects, result
    w,        \* the call of wait_for_publish: parameters, position, result
    wh,       \* what the polls of that call observed
    products, \* the products table, by item_id
    posts,    \* the posts table (the publish log), in insertion order
    run,      \* the call of run_single_post: arguments, position, result
    gen,      \* a call of generate_post_text made on its own
    sel,      \* the last query of the rotation selector made on its own
    batch,    \* a call of generate_multiple_variations
    ops,      \* what a sequence of runs has done so far
    pair      \* two calls of run_single_post that interleave

vars ==
    <<oob, file, tokens, now, tm, ip, w, wh, products, posts, run, gen, sel,
      batch, ops, pair>>

posterVars == <<ip, w, wh>>
runVars == <<products, posts, run>>
unitVars == <<gen, sel, batch, ops, pair>>

\* ---------------------------------------------------------- token manager
\* TikTokTokenManager.load_tokens: returns the loaded value (kind "none" for
\* None) and the new cache
load_tokens(f, c) ==
    IF f.kind \in {"absent", "corrupt"}
        THEN [ret |-> Blank("none"), cache |-> c]
        ELSE [ret |-> f, cache |-> f]

\* TikTokTokenManager.save_tokens: sv is the outcome of the file system
\*   "ok"         : written
\*   "fail_open"  : mkdir or open raised, the file is untouched
\*   "fail_write" : json.dump raised after open(..., "w") truncated the file
save_tokens(new, f, c, sv) ==
    CASE sv = "ok" -> [ret |-> TRUE, file |-> new, cache |-> new]
      [] sv = "fail_open" -> [ret |-> FALSE, file |-> f, cache |-> c]
      [] OTHER -> [ret |-> FALSE, file |-> Blank("corrupt"), cache |-> c]

\* the reply of the token endpoint to the refresh request
\*   kind "transport_error" : requests.post raised
\*   kind "http_error"      : raise_for_status raised
\*   kind "bad_json"        : response.json() raised
\*   kind "nondict"         : the body is JSON but not an object
\*   kind "json"            : an object; access_token ABSENT when not carried
Reply(k, at, rt, ei, oid) ==
    [kind |-> k, access_token |-> at, refresh_token |-> rt,
     expires_in |-> ei, open_id |-> oid]

\* the record built from a reply that carries an access token (lines 117-122)
new_tokens(old, resp, t) ==
    Record(resp.access_token,
           IF resp.refresh_token = ABSENT THEN old.refresh_token
                                          ELSE resp.refresh_token,
           isoformat(t + (IF resp.expires_in = ABSENT_INT
                             THEN DEFAULT_EXPIRES_IN ELSE resp.expires_in)),
           IF resp.open_id = ABSENT THEN old.open_id ELSE resp.open_id)

\* a refresh that repeats the request once when the first reply is unusable
refresh_access_token_retry(f, c, t, resp, sv) ==
    LET ld == IF Truthy(c) THEN [ret |-> c, cache |-> c] ELSE load_tokens(f, c)
        loads == IF Truthy(c) THEN 0 ELSE 1
        toks == ld.ret
        out(r, n) == [ret |-> r, file |-> f, cache |-> ld.cache, loads |-> loads,
                      requests |-> n, writes |-> 0]
    IN  IF ~Truthy(toks) THEN out("false", 0)
        ELSE IF toks.kind = "nondict" THEN out("raise", 0)
        ELSE IF Falsy(toks.refresh_token) THEN out("false", 0)
        ELSE IF resp.kind # "json" THEN out("false", 2)
        ELSE IF resp.access_token = ABSENT THEN out("false", 2)
        ELSE LET s == save_tokens(new_tokens(toks, resp, t), f, ld.cache, sv)
             IN  [ret |-> "true", file |-> s.file, cache |-> s.cache,
                  loads |-> loads, requests |-> 1, writes |-> 1]

\* a refresh that reports success for every reply with an ok status
refresh_access_token_lenient(f, c, t, resp, sv) ==
    LET ld == IF Truthy(c) THEN [ret |-> c, cache |-> c] ELSE load_tokens(f, c)
        loads == IF Truthy(c) THEN 0 ELSE 1
        toks == ld.ret
        out(r, n) == [ret |-> r, file |-> f, cache |-> ld.cache, loads |-> loads,
                      requests |-> n, writes |-> 0]
    IN  IF ~Truthy(toks) THEN out("false", 0)
        ELSE IF toks.kind = "nondict" THEN out("raise", 0)
        ELSE IF Falsy(toks.refresh_token) THEN out("false", 0)
        ELSE IF resp.kind # "json" THEN out("false", 1)
        ELSE IF resp.access_token = ABSENT THEN out("true", 1)
        ELSE LET s == save_tokens(new_tokens(toks, resp, t), f, ld.cache, sv)
             IN  [ret |-> "true", file |-> s.file, cache |-> s.cache,
                  loads |-> loads, requests |-> 1, writes |-> 1]

\* TikTokTokenManager.refresh_access_token.  ret is "true", "false" or
\* "raise" (tokens.get on a value that is not a dict, outside the try)
refresh_access_token(f, c, t, resp, sv) ==
    LET ld == IF Truthy(c) THEN [ret |-> c, cache |-> c] ELSE load_tokens(f, c)
        loads == IF Truthy(c) THEN 0 ELSE 1
        toks == ld.ret
        quiet(r) == [ret |-> r, file |-> f, cache |-> ld.cache, loads |-> loads,
                     requests |-> 0, writes |-> 0]
        sent(r) == [ret |-> r, file |-> f, cache |-> ld.cache, loads |-> loads,
                    requests |-> 1, writes |-> 0]
    IN  IF ~Truthy(toks) THEN quiet("false")
        ELSE IF toks.kind = "nondict" THEN quiet("raise")
        ELSE IF Falsy(toks.refresh_token) THEN quiet("false")
        ELSE IF resp.kind # "json" THEN sent("false")
        ELSE IF resp.access_token = ABSENT THEN sent("false")
        ELSE LET s == save_tokens(new_tokens(toks, resp, t), f, ld.cache, sv)
             IN  [ret |-> "true", file |-> s.file, cache |-> s.cache,
                  loads |-> loads, requests |-> 1, writes |-> 1]

\* what a call hands back: a value, or an exception
Return(v) == [kind |-> "return", value |-> v]
Raise == [kind |-> "raise", value |-> None]

\* the expiry test of get_access_token: datetime.now() > expires_time
is_expired_inverted(t, e) == t < fromisoformat(e)
\* an expiry test that takes every record as expired
is_expired_always(t, e) == TRUE
is_expired(t, e) == t > fromisoformat(e)

\* the effects and the result of one call of get_access_token
Outcome(res, ff, cc, l, rq, wr, rr) ==
    [result |-> res, file |-> ff, cache |-> cc, loads |-> l,
     requests |-> rq, writes |-> wr, refresh |-> rr]

\* get_access_token below the override: load, expiry check, refresh
token_from_file(f, c, t, resp, sv) ==
    LET ld == load_tokens(f, c)
        toks == ld.ret
    IN  IF ~Truthy(toks) THEN Outcome(Return(None), f, ld.cache, 1, 0, 0, "not_called")
        ELSE IF toks.kind = "nondict"
            THEN Outcome(Raise, f, ld.cache, 1, 0, 0, "not_called")
        ELSE IF toks.expires_at.tag = "none"
            THEN Outcome(Return(toks.access_token), f, ld.cache, 1, 0, 0, "not_called")
        ELSE IF fromisoformat_raises(toks.expires_at)
            THEN Outcome(Raise, f, ld.cache, 1, 0, 0, "not_called")
        ELSE IF is_expired(t, toks.expires_at)
            THEN LET rf == refresh_access_token(f, ld.cache, t, resp, sv)
                 IN  Outcome(CASE rf.ret = "true" -> Return(rf.cache.access_token)
                               [] rf.ret = "raise" -> Raise
                               [] OTHER -> Return(None),
                             rf.file, rf.cache, 1 + rf.loads, rf.requests,
                             rf.writes, rf.ret)
        ELSE Outcome(Return(toks.access_token), f, ld.cache, 1, 0, 0, "not_called")

\* a get_access_token that consults the file first and the override last
get_access_token_file_first(o, f, c, t, resp, sv) ==
    LET g == token_from_file(f, c, t, resp, sv)
    IN  IF g.result.kind = "return" /\ Falsy(g.result.value) /\ o # ""
            THEN [g EXCEPT !.result = Return(o)]
            ELSE g

\* TikTokTokenManager.get_access_token
get_access_token(o, f, c, t, resp, sv) ==
    IF o # "" THEN Outcome(Return(o), f, c, 0, 0, 0, "not_called")
              ELSE token_from_file(f, c, t, resp, sv)

\* --------------------------------------------------- publish state machine
STATUS_PROCESSING_UPLOAD == "PROCESSING_UPLOAD"
STATUS_PROCESSING_DOWNLOAD == "PROCESSING_DOWNLOAD"
STATUS_SEND_TO_USER_INBOX == "SEND_TO_USER_INBOX"
STATUS_PUBLISH_COMPLETE == "PUBLISH_COMPLETE"
STATUS_FAILED == "FAILED"

\* the reply of the platform to a publish-init or a status-fetch request
\*   kind "request_error" : requests.post or response.json() raised a
\*                          requests.RequestException
\*   kind "nondict"       : the body is JSON but not the expected object
\*   kind "json"          : an object; ok200 is status_code == 200, err_ok is
\*                          error.code == "ok"
Http(k, ok200, err_ok, pid, st, fr) ==
    [kind |-> k, ok200 |-> ok200, err_ok |-> err_ok, publish_id |-> pid,
     status |-> st, fail_reason |-> fr]

\* the effects and the result of a call of the poster
PosterOutcome(ret, g, rq) ==
    [ret |-> ret, file |-> g.file, cache |-> g.cache, requests |-> rq,
     refreshes |-> g.requests, token |-> g.result]

\* an init that sends the request again when the first one is not accepted
init_photo_post_retry(o, f, c, t, resp, sv, http) ==
    LET g == get_access_token(o, f, c, t, resp, sv)
    IN  IF g.result.kind = "raise" THEN PosterOutcome(Raise, g, 0)
        ELSE IF Falsy(g.result.value) THEN PosterOutcome(Return(None), g, 0)
        ELSE IF http.kind = "request_error" THEN PosterOutcome(Return(None), g, 2)
        ELSE IF http.kind = "nondict" THEN PosterOutcome(Raise, g, 1)
        ELSE IF http.ok200 /\ http.err_ok /\ ~Falsy(http.publish_id)
            THEN PosterOutcome(Return(http.publish_id), g, 1)
        ELSE PosterOutcome(Return(None), g, 2)

\* TikTokPoster.init_photo_post (with TikTokPoster._get_headers): returns the
\* publish_id, None, or raises (a token that cannot be obtained, result.get
\* on a body that is not an object)
init_photo_post(o, f, c, t, resp, sv, http) ==
    LET g == get_access_token(o, f, c, t, resp, sv)
    IN  IF g.result.kind = "raise" THEN PosterOutcome(Raise, g, 0)
        ELSE IF Falsy(g.result.value) THEN PosterOutcome(Return(None), g, 0)
        ELSE IF http.kind = "request_error" THEN PosterOutcome(Return(None), g, 1)
        ELSE IF http.kind = "nondict" THEN PosterOutcome(Raise, g, 1)
        ELSE IF http.ok200 /\ http.err_ok /\ ~Falsy(http.publish_id)
            THEN PosterOutcome(Return(http.publish_id), g, 1)
        ELSE PosterOutcome(Return(None), g, 1)

\* what check_publish_status hands back: None, {status, fail_reason}, or an
\* exception
NoStatus == [kind |-> "none", status |-> None, fail_reason |-> ""]
Status(st, fr) == [kind |-> "status", status |-> st, fail_reason |-> fr]
StatusRaise == [kind |-> "raise", status |-> None, fail_reason |-> ""]

\* TikTokPoster.check_publish_status (with TikTokPoster._get_headers)
check_publish_status(o, f, c, t, resp, sv, http) ==
    LET g == get_access_token(o, f, c, t, resp, sv)
    IN  IF g.result.kind = "raise" THEN PosterOutcome(StatusRaise, g, 0)
        ELSE IF Falsy(g.result.value) THEN PosterOutcome(NoStatus, g, 0)
        ELSE IF http.kind = "request_error" THEN PosterOutcome(NoStatus, g, 1)
        ELSE IF ~http.ok200 THEN PosterOutcome(NoStatus, g, 1)
        ELSE IF http.kind = "nondict" THEN PosterOutcome(StatusRaise, g, 1)
        ELSE PosterOutcome(Status(http.status, http.fail_reason), g, 1)

\* the loop test of wait_for_publish: time.time() - start_time < timeout
loop_continues_short(t, start, timeout) == t - start < timeout - 1
loop_continues(t, start, timeout) == t - start < timeout

\* the clock after time.sleep(interval)
sleep_skipped(t, interval) == t
sleep(t, interval) == t + interval

\* the results of wait_for_publish
WaitResult(ok, st, fr) == [success |-> ok, status |-> st, fail_reason |-> fr]
TIMEOUT_RESULT == WaitResult(FALSE, "TIMEOUT", "processing timed out")

\* a loop body that gives up at the first poll that returns no status
loop_body_gives_up(sr) ==
    IF sr.kind = "none"
        THEN [kind |-> "return",
              result |-> WaitResult(FALSE, STATUS_FAILED, "Unknown")]
    ELSE IF sr.status = STATUS_PUBLISH_COMPLETE
        THEN [kind |-> "return", result |-> WaitResult(TRUE, sr.status, "")]
    ELSE IF sr.status = STATUS_FAILED
        THEN [kind |-> "return",
              result |-> WaitResult(FALSE, sr.status, sr.fail_reason)]
    ELSE [kind |-> "sleep", result |-> TIMEOUT_RESULT]

\* a loop body that reports every failure with the same reason
loop_body_fixed_reason(sr) ==
    IF sr.kind = "none" THEN [kind |-> "sleep", result |-> TIMEOUT_RESULT]
    ELSE IF sr.status = STATUS_PUBLISH_COMPLETE
        THEN [kind |-> "return", result |-> WaitResult(TRUE, sr.status, "")]
    ELSE IF sr.status = STATUS_FAILED
        THEN [kind |-> "return",
              result |-> WaitResult(FALSE, sr.status, "Unknown")]
    ELSE [kind |-> "sleep", result |-> TIMEOUT_RESULT]

\* one pass through the body of the loop of wait_for_publish on the poll
\* result sr: the result to return (kind "return") or the sleep (kind "sleep")
loop_body(sr) ==
    IF sr.kind = "none" THEN [kind |-> "sleep", result |-> TIMEOUT_RESULT]
    ELSE IF sr.status = STATUS_PUBLISH_COMPLETE
        THEN [kind |-> "return", result |-> WaitResult(TRUE, sr.status, "")]
    ELSE IF sr.status = STATUS_FAILED
        THEN [kind |-> "return",
              result |-> WaitResult(FALSE, sr.status, sr.fail_reason)]
    ELSE [kind |-> "sleep", result |-> TIMEOUT_RESULT]

\* the statuses from which the publish state machine does not move on
TerminalStatuses ==
    {STATUS_SEND_TO_USER_INBOX, STATUS_PUBLISH_COMPLETE, STATUS_FAILED}

\* replies of the platform to a publish-init request
InitReplies ==
    {Http("request_error", FALSE, FALSE, None, None, ""),
     Http("nondict", TRUE, FALSE, None, None, ""),
     Http("nondict", FALSE, FALSE, None, None, "")}
    \cup {Http("json", ok200, err_ok, pid, None, "") :
            ok200 \in BOOLEAN, err_ok \in BOOLEAN, pid \in {None, "pub_1"}}

\* replies of the platform to a status-fetch request
StatusReplies ==
    {Http("request_error", FALSE, FALSE, None, None, ""),
     Http("nondict", TRUE, FALSE, None, None, ""),
     Http("json", FALSE, FALSE, None, None, ""),
     Http("json", TRUE, TRUE, None, STATUS_FAILED, "rejected")}
    \cup {Http("json", TRUE, TRUE, None, st, "") :
            st \in {None, STATUS_PROCESSING_UPLOAD, STATUS_PROCESSING_DOWNLOAD,
                    STATUS_SEND_TO_USER_INBOX, STATUS_PUBLISH_COMPLETE,
                    STATUS_FAILED}}

NoInit ==
    [called |-> FALSE, token |-> Return(None), requests |-> 0,
     ret |-> Return(None)]

NoWait ==
    [pc |-> "idle", start |-> 0, timeout |-> 0, interval |-> 0,
     result |-> TIMEOUT_RESULT, elapsed |-> 0]

\* polls: calls of check_publish_status; failed: polls that gave None;
\* firstTerminal, terminal: the first poll that reported a terminal status
\* (0 when none did) and what it reported; tookTime: some poll took time;
\* last: what the last poll gave
NoPolls ==
    [polls |-> 0, failed |-> 0, firstTerminal |-> 0, terminal |-> NoStatus,
     tookTime |-> FALSE, last |-> NoStatus]


\* ------------------------------------------------------- the environment

\* what the operator may have put into TIKTOK_ACCESS_TOKEN
OobValues == {"", "env_token"}

\* expiry texts a credential file may hold: none, unparsable, past, now, future
ExpiryValues ==
    {NoExpiry, BadExpiry, isoformat(1), isoformat(StartNow), isoformat(StartNow + 1)}

\* credential files a process may find
FileValues ==
    {Blank("absent"), Blank("corrupt"), Blank("empty"), Blank("nondict")}
    \cup {Record(at, rt, e, "oid_old") :
            at \in {"at_old"}, rt \in {None, "rt_old"}, e \in ExpiryValues}

\* replies of the token endpoint
ReplyValues ==
    {Reply(k, ABSENT, ABSENT, ABSENT_INT, ABSENT) :
        k \in {"transport_error", "http_error", "bad_json", "nondict"}}
    \cup {Reply("json", at, rt, ei, oid) :
            at \in {ABSENT, "at_new"}, rt \in {ABSENT, "rt_new"},
            ei \in {ABSENT_INT, 3600}, oid \in {ABSENT}}

SaveOutcomes == {"ok", "fail_open", "fail_write"}

\* the reply and the file-system outcome that one call of get_access_token
\* consumes: a reply only when the call sends the refresh request, an outcome
\* of the write only when the reply makes the call write
NoReply == Reply("transport_error", ABSENT, ABSENT, ABSENT_INT, ABSENT)
TokenInputs(o, f, c, t) ==
    IF get_access_token(o, f, c, t, NoReply, "ok").requests = 0
        THEN {<<NoReply, "ok">>}
        ELSE {<<resp, sv>> \in ReplyValues \X SaveOutcomes :
                \/ sv = "ok"
                \/ resp.kind = "json" /\ resp.access_token # ABSENT}

\* the platform reply that a call of the poster consumes: none when the call
\* obtains no token
NoHttp == Http("request_error", FALSE, FALSE, None, None, "")
HttpInputs(replies, g) ==
    IF g.result.kind = "return" /\ ~Falsy(g.result.value)
        THEN replies ELSE {NoHttp}

NoCall ==
    [called |-> FALSE, fileBefore |-> Blank("absent"), nowAt |-> 0,
     resp |-> NoReply, save |-> "ok", result |-> Return(None), loads |-> 0, requests |-> 0,
     writes |-> 0, refresh |-> "not_called"]

\* ------------------------------------------------- store and generator
ItemIds == {"p1", "p2", "p3"}

\* last_posted_at IS NULL
NULL_TIME == -1

\* a row of the products table (present: the row exists)
Product(present, img, pc, lp, act) ==
    [present |-> present, image_url |-> img, post_count |-> pc,
     last_posted_at |-> lp, is_active |-> act]

NoProduct == Product(FALSE, None, 0, NULL_TIME, FALSE)
NoProducts == [i \in ItemIds |-> NoProduct]

\* ... CASE WHEN last_posted_at IS NULL THEN 1 ELSE 0 END ...
null_rank_inverted(a) == IF a.last_posted_at = NULL_TIME THEN 1 ELSE 0

\* ORDER BY CASE WHEN last_posted_at IS NULL THEN 0 ELSE 1 END,
\*          post_count ASC, last_posted_at ASC: row a sorts before row b
null_rank(a) == IF a.last_posted_at = NULL_TIME THEN 0 ELSE 1

\* ... post_count DESC ...
sorts_before_most_posted_first(a, b) ==
    \/ null_rank(a) < null_rank(b)
    \/ /\ null_rank(a) = null_rank(b)
       /\ \/ a.post_count > b.post_count
          \/ /\ a.post_count = b.post_count
             /\ a.last_posted_at < b.last_posted_at
sorts_before(a, b) ==
    \/ null_rank(a) < null_rank(b)
    \/ /\ null_rank(a) = null_rank(b)
       /\ \/ a.post_count < b.post_count
          \/ /\ a.post_count = b.post_count
             /\ a.last_posted_at < b.last_posted_at

\* the rows of get_products_for_posting: WHERE is_active = 1
posting_candidates(P) == {i \in ItemIds : P[i].present /\ P[i].is_active}

\* the sequences that list every element of S once
orderings(S) ==
    {s \in [1..Cardinality(S) -> S] : \A i, j \in DOMAIN s : s[i] = s[j] => i = j}

\* get_products_for_posting: the sequences of item_ids the query can return.
\* Rows that tie under the ORDER BY come in an order the query leaves to the
\* engine, which meets the rows in the order of their insertion
get_products_for_posting(P) ==
    {s \in orderings(posting_candidates(P)) :
        \A i, j \in DOMAIN s : i < j => ~sorts_before(P[s[j]], P[s[i]])}

\* products[0] if products else None
first_or_none(rows) == IF rows = <<>> THEN None ELSE rows[1]

\* get_next_product_for_posting: the item_ids it can return
next_product_for_posting(P) ==
    {first_or_none(rows) : rows \in get_products_for_posting(P)}

\* get_product: the row with that item_id, active or not; None when missing
get_product(P, id) == IF id \in ItemIds /\ P[id].present THEN id ELSE None

\* ---- texts.  A text is a sequence of tokens; a token is a run of n
\* characters of one class:
\*   "PR"      the two letters P, R (word characters)
\*   "w"       word characters (\w, kana, kanji) that spell none of the
\*             literals the patterns look for
\*   "x"       characters that are neither word characters nor white space
\*             (punctuation, emoji), other than # and the colons
\*   "#"       the hash sign          "colon"   ":" or the full-width colon
\*   "sp"      a space                "nl"      a newline
\*   "honbun"  the label of the body section (two kanji)
\*   "tagword" the label of the hashtag section (six katakana)
Tok(c, n) == [c |-> c, n |-> n]
PR == Tok("PR", 2)
W(n) == Tok("w", n)
X(n) == Tok("x", n)
HASH == Tok("#", 1)
COLON == Tok("colon", 1)
SP == Tok("sp", 1)
NL == Tok("nl", 1)
HONBUN == Tok("honbun", 2)
TAGWORD == Tok("tagword", 6)

\* [\w\u3040-\u30FF\u4E00-\u9FFF] and \s
IsWord(t) == t.c \in {"PR", "w", "honbun", "tagword"}
IsSpace(t) == t.c \in {"sp", "nl"}

\* len(text)
RECURSIVE text_len(_)
text_len(s) == IF s = <<>> THEN 0 ELSE Head(s).n + text_len(Tail(s))

\* the last token of the run of word characters that starts at token i
\* (i - 1 when token i is no word character)
RECURSIVE word_end(_, _)
word_end(s, i) ==
    IF i <= Len(s) /\ IsWord(s[i]) THEN word_end(s, i + 1) ELSE i - 1

\* re.findall(r"#[\w\u3040-\u30FF\u4E00-\u9FFF]+", s) from token i on
RECURSIVE findall_from(_, _)
findall_from(s, i) ==
    IF i > Len(s) THEN <<>>
    ELSE IF s[i].c = "#" /\ word_end(s, i + 1) > i
        THEN <<SubSeq(s, i, word_end(s, i + 1))>>
                \o findall_from(s, word_end(s, i + 1) + 1)
    ELSE findall_from(s, i + 1)

findall_hashtags(s) == findall_from(s, 1)

\* re.sub(r"#[\w\u3040-\u30FF\u4E00-\u9FFF]+", "", s) from token i on
RECURSIVE sub_from(_, _)
sub_from(s, i) ==
    IF i > Len(s) THEN <<>>
    ELSE IF s[i].c = "#" /\ word_end(s, i + 1) > i
        THEN sub_from(s, word_end(s, i + 1) + 1)
    ELSE <<s[i]>> \o sub_from(s, i + 1)

sub_hashtags(s) == sub_from(s, 1)

\* str.strip()
RECURSIVE lstrip(_)
lstrip(s) == IF s # <<>> /\ IsSpace(Head(s)) THEN lstrip(Tail(s)) ELSE s
RECURSIVE rstrip(_)
rstrip(s) ==
    IF s # <<>> /\ IsSpace(s[Len(s)]) THEN rstrip(SubSeq(s, 1, Len(s) - 1))
                                      ELSE s
strip(s) == rstrip(lstrip(s))

\* " ".join(tags)
RECURSIVE join(_)
join(tags) ==
    IF tags = <<>> THEN <<>>
    ELSE IF Len(tags) = 1 THEN tags[1]
    ELSE tags[1] \o <<SP>> \o join(Tail(tags))

\* hashtags[:7]
MAX_HASHTAGS == 7
first_hashtags(tags) ==
    IF Len(tags) > MAX_HASHTAGS THEN SubSeq(tags, 1, MAX_HASHTAGS) ELSE tags

\* $ after token e: the end of the text, or just before its final newline
at_end(s, e) == e = Len(s) \/ (e = Len(s) - 1 /\ s[Len(s)].c = "nl")

\* the tokens after token e begin with the classes cs
follows(s, e, cs) ==
    /\ Len(s) >= e + Len(cs)
    /\ \A k \in 1..Len(cs) : s[e + k].c = cs[k]

\* (?=\n<tagword>|\n#|$) and (?=\n#|\n\n<tagword>|$) after token e
body_ahead(s, e) ==
    follows(s, e, <<"nl", "tagword">>) \/ follows(s, e, <<"nl", "#">>)
        \/ at_end(s, e)
pr_ahead(s, e) ==
    follows(s, e, <<"nl", "#">>) \/ follows(s, e, <<"nl", "nl", "tagword">>)
        \/ at_end(s, e)

\* the last token of the lazy group .+? whose first token is e or earlier
RECURSIVE lazy_end(_, _, _)
lazy_end(s, e, fallback) ==
    IF e >= Len(s) THEN Len(s)
    ELSE IF (IF fallback THEN pr_ahead(s, e) ELSE body_ahead(s, e)) THEN e
    ELSE lazy_end(s, e + 1, fallback)

\* the last token of the run of white space that starts at token j
RECURSIVE space_end(_, _)
space_end(s, j) ==
    IF j <= Len(s) /\ IsSpace(s[j]) THEN space_end(s, j + 1) ELSE j - 1

\* <honbun>[:<wide colon>]?\s*\n with the label at token i: the newline that \n matches
\* (\s* is greedy, and the group after the newline needs one character);
\* 0 when the pattern does not match there
body_newline(s, i) ==
    LET j == IF i < Len(s) /\ s[i + 1].c = "colon" THEN i + 2 ELSE i + 1
        C == {p \in j..space_end(s, j) : s[p].c = "nl" /\ p < Len(s)}
    IN  IF C = {} THEN 0 ELSE CHOOSE p \in C : \A q \in C : q <= p

\* re.search of the body pattern: the label token of the leftmost match
body_match(s) ==
    LET I == {i \in 1..Len(s) : s[i].c = "honbun" /\ body_newline(s, i) > 0}
    IN  IF I = {} THEN 0 ELSE CHOOSE i \in I : \A k \in I : i <= k

\* re.search of (PR.+?)...: the PR token of the leftmost match
pr_match(s) ==
    LET I == {i \in 1..Len(s) : s[i].c = "PR" /\ i < Len(s)}
    IN  IF I = {} THEN 0 ELSE CHOOSE i \in I : \A k \in I : i <= k

\* group(1).strip() of the body pattern, else of the fallback pattern
extract_body(s) ==
    IF body_match(s) > 0
        THEN strip(SubSeq(s, body_newline(s, body_match(s)) + 1,
                          lazy_end(s, body_newline(s, body_match(s)) + 1, FALSE)))
    ELSE IF pr_match(s) > 0
        THEN strip(SubSeq(s, pr_match(s), lazy_end(s, pr_match(s) + 1, TRUE)))
    ELSE <<>>

\* the result dict of parse_response and of generate_post_text
PostText(body, hashtags, full_text) ==
    [body |-> body, hashtags |-> hashtags, full_text |-> full_text]

NoPostText == PostText(<<>>, <<>>, <<>>)

\* parse_response
parse_response(s) ==
    LET body == extract_body(s)
        hashtags == first_hashtags(findall_hashtags(s))
    IN  PostText(body, hashtags,
                 IF body # <<>> THEN body \o <<NL, NL>> \o join(hashtags)
                                ELSE <<>>)

\* the limits of validate_post_text
MAX_BODY_LENGTH == 300
MIN_HASHTAG_COUNT == 5
MAX_HASHTAG_COUNT == 7

\* the length validate_post_text measures: the text without its hashtags,
\* stripped
body_length(text) == text_len(strip(sub_hashtags(text)))

\* text.startswith("PR")
starts_with_pr(text) == text # <<>> /\ text[1].c = "PR"

\* a validation that does not bound the length
validate_post_text_any_length(text) ==
    (IF ~starts_with_pr(text) THEN {"no_pr"} ELSE {})
    \cup (IF Len(findall_hashtags(text)) < MIN_HASHTAG_COUNT
             THEN {"few_hashtags"} ELSE {})
    \cup (IF Len(findall_hashtags(text)) > MAX_HASHTAG_COUNT
             THEN {"many_hashtags"} ELSE {})

\* validate_post_text: the errors it finds
validate_post_text(text) ==
    (IF body_length(text) > MAX_BODY_LENGTH THEN {"too_long"} ELSE {})
    \cup (IF ~starts_with_pr(text) THEN {"no_pr"} ELSE {})
    \cup (IF Len(findall_hashtags(text)) < MIN_HASHTAG_COUNT
             THEN {"few_hashtags"} ELSE {})
    \cup (IF Len(findall_hashtags(text)) > MAX_HASHTAG_COUNT
             THEN {"many_hashtags"} ELSE {})

\* what client.messages.create does in one attempt: it raises
\* anthropic.APIError ("api_error"), the attempt raises another exception
\* ("error": no content block), or there is a reply text
Service(k, text) == [kind |-> k, text |-> text]

\* the outcome of one attempt of generate_post_text (see AttemptOutcomes)
attempt_outcome(sv) ==
    IF sv.kind # "text" THEN sv.kind
    ELSE IF parse_response(sv.text).body = <<>> THEN "empty_body"
    ELSE IF validate_post_text(parse_response(sv.text).full_text) = {}
        THEN "valid"
    ELSE "invalid"

\* default max_retries of generate_post_text
MAX_RETRIES == 2

\* what one attempt of generate_post_text meets
\*   "api_error"  : client.messages.create raised anthropic.APIError
\*   "error"      : another exception (no content block, transport layer)
\*   "empty_body" : parse_response found no body
\*   "invalid"    : validate_post_text found errors
\*   "valid"      : a body that passes validate_post_text
AttemptOutcomes == {"api_error", "error", "empty_body", "invalid", "valid"}

\* a loop over range(max_retries)
attempts_without_first(max_retries) == max_retries
\* the attempts of the loop: range(max_retries + 1)
attempts(max_retries) == max_retries + 1

\* the loop of generate_post_text from attempt k on (attempts 1..n)
RECURSIVE attempts_from(_, _, _)
attempts_from(outs, k, n) ==
    IF k > n THEN [ret |-> "none", calls |-> n]
    ELSE IF outs[k] = "valid" THEN [ret |-> "post", calls |-> k]
    ELSE IF outs[k] = "error" THEN [ret |-> "raise", calls |-> k]
    ELSE attempts_from(outs, k + 1, n)

\* generate_post_text: key is ANTHROPIC_API_KEY being set, outs the outcomes
\* of the attempts; ret is "post", "none" or "raise"
generate_post_text(key, outs, max_retries) ==
    IF ~key THEN [ret |-> "none", calls |-> 0]
            ELSE attempts_from(outs, 1, attempts(max_retries))

\* defaults of wait_for_publish, used by post_product
DEFAULT_TIMEOUT == 120
DEFAULT_INTERVAL == 5

\* the products table after a run did not write post_count
record_published_without_count(P, item, post_count, t) ==
    [P EXCEPT ![item].last_posted_at = t]
\* the products table after update_product(item_id, {last_posted_at: now,
\* post_count: product.get("post_count", 0) + 1}), post_count being the value
\* the run read at selection
record_published(P, item, post_count, t) ==
    [P EXCEPT ![item].last_posted_at = t, ![item].post_count = post_count + 1]

\* an entry written without its status: the column default applies
Post_default_status(item, pid, st) ==
    [item_id |-> item, tiktok_publish_id |-> pid, status |-> "pending"]

\* a row of the posts table
Post(item, pid, st) == [item_id |-> item, tiktok_publish_id |-> pid, status |-> st]

\* the call of run_single_post.  pc: "idle", "host", "generate", "publish",
\* "wait", "done"; store: the products table when the run began; item,
\* post_count: the product dict read at selection; hosted: get_hosted_url
\* gave a URL; gen, gen_ret: service calls made by the generator and what it
\* gave ("not_called", "post", "none", "raise"); inits: requests sent to the
\* init endpoint; db: how the recording of the result went ("none", "ok",
\* "log_raised", "update_raised"); ret: "none" while running, then "true"
\* or "false"
NoRun ==
    [pc |-> "idle", dry_run |-> FALSE, product_id |-> None, store |-> NoProducts,
     item |-> None, post_count |-> 0, hosted |-> FALSE, gen |-> 0,
     gen_ret |-> "not_called", inits |-> 0, db |-> "none", ret |-> "none"]

\* a call of generate_post_text.  pc: "idle", "loop", "done"; key:
\* ANTHROPIC_API_KEY is set; outs: the outcomes of the attempts made; calls:
\* calls of client.messages.create; ret: "post", "none" or "raise"; reply,
\* result: the reply text of the attempt that returned and the dict returned
NoGen ==
    [pc |-> "idle", key |-> FALSE, max_retries |-> 0, outs |-> <<>>,
     calls |-> 0, ret |-> "none", reply |-> <<>>, result |-> NoPostText]

\* a query of the rotation selector.  op: "list" (get_products_for_posting)
\* or "next" (get_next_product_for_posting); rows: what
\* get_products_for_posting returned; next: what
\* get_next_product_for_posting made of it
NoQuery == [called |-> FALSE, op |-> "none", rows |-> <<>>, next |-> None]

\* the style presets, in the order of the keys of the dictionary
STYLE_TEMPLATES == <<"enthusiastic", "casual", "informative", "story">>

\* s[:count] of Python: the first count elements, and for a negative count
\* all but the last -count elements
slice_to(s, count) ==
    IF count >= 0
        THEN SubSeq(s, 1, IF count < Len(s) THEN count ELSE Len(s))
        ELSE SubSeq(s, 1, IF Len(s) + count > 0 THEN Len(s) + count ELSE 0)

\* no call of generate_multiple_variations was made (styles: the styles of
\* the loop; calls: the styles generate_post_text was called with; failed:
\* the styles that gave no post; results: the styles of the list returned)
NoBatch ==
    [pc |-> "idle", count |-> 0, key |-> FALSE, styles |-> <<>>,
     calls |-> <<>>, failed |-> {}, results |-> <<>>]

\* no run of a sequence of runs was made (store0: the products table before
\* the first run; runs: the runs that reached step 5 and wrote; selected: the
\* products selected by a run so far; rotation: every run so far was a
\* rotation-mode run that published and recorded it, later than the run
\* before it; tick: flips at every run)
NoOps ==
    [store0 |-> NoProducts, runs |-> 0, selected |-> {}, rotation |-> TRUE,
     tick |-> FALSE]

\* the two runs that interleave
Runs == {1, 2}

\* a run not yet started (pc: "idle", "publish", "log", "update", "done";
\* item, post_count: the row read at step 1; success: what the wait
\* returned; ret: what run_single_post returned)
NoPairRun ==
    [pc |-> "idle", item |-> None, post_count |-> 0, success |-> FALSE,
     ret |-> "none"]

NoPair == [r \in Runs |-> NoPairRun]

\* ---- reply texts of the generative-text service, put together from a
\* head, a body section, a separator and a list of k hashtags
ReplyHeads ==
    {<<HONBUN, COLON, NL>>, <<HONBUN, NL>>, <<>>,
     <<W(5), NL, HONBUN, COLON, SP, NL>>}

ReplyBodies ==
    {<<PR, SP, W(10)>>,
     <<PR, W(MAX_BODY_LENGTH - 2)>>,
     <<PR, W(MAX_BODY_LENGTH - 1)>>,
     <<W(10)>>,
     <<PR, SP, W(4), SP, HASH, W(3), SP, W(4)>>,
     <<PR, SP, W(4), NL, W(6), X(1)>>,
     <<PR, W(MAX_BODY_LENGTH - 10), SP, HASH, W(20)>>,
     <<PR, SP, HASH, SP, W(3)>>,
     <<>>}

ReplySeparators ==
    {<<NL, NL, TAGWORD, COLON, NL>>, <<NL, NL>>, <<NL>>, <<SP>>}

\* k hashtags on one line
hashtag_list(k) == join([i \in 1..k |-> <<HASH, W(i)>>])

HashtagCounts == {0, 3, 4, 5, 6, 7, 8}

ReplyTexts ==
    {h \o b \o sep \o hashtag_list(k) :
        h \in ReplyHeads, b \in ReplyBodies, sep \in ReplySeparators,
        k \in HashtagCounts}

ServiceOutcomes ==
    {Service("api_error", <<>>), Service("error", <<>>)}
        \cup {Service("text", t) : t \in ReplyTexts}

\* rows of the products table the rotation selector may find
RowValues ==
    {NoProduct}
    \cup {Product(TRUE, "img", st[1], st[2], act) :
            st \in {<<0, NULL_TIME>>, <<0, 1>>, <<1, 1>>, <<1, 2>>, <<2, 1>>},
            act \in BOOLEAN}

\* stores a run may find
StoreValues ==
    {NoProducts,
     [i \in ItemIds |-> IF i = "p3" THEN NoProduct
                                   ELSE Product(TRUE, "img", 0, NULL_TIME, TRUE)],
     [i \in ItemIds |-> IF i = "p1" THEN Product(TRUE, None, 0, NULL_TIME, TRUE)
                       ELSE IF i = "p2" THEN Product(TRUE, "img", 1, 1, TRUE)
                       ELSE NoProduct],
     [i \in ItemIds |-> IF i = "p1" THEN Product(TRUE, "img", 0, NULL_TIME, FALSE)
                                   ELSE NoProduct]}

\* credential files a run may find: none, a record that is valid throughout,
\* an expired record with a refresh token
RunFileValues ==
    {Blank("absent"),
     Record("at_old", "rt_old", isoformat(StartNow + DEFAULT_EXPIRES_IN), "oid_old"),
     Record("at_old", "rt_old", isoformat(1), "oid_old")}

\* ------------------------------------------- token-manager specification
Init ==
    /\ oob \in OobValues
    /\ file \in FileValues
    /\ tokens = Blank("none")
    /\ now = StartNow
    /\ tm = NoCall
    /\ ip = NoInit
    /\ w = NoWait
    /\ wh = NoPolls
    /\ products = NoProducts
    /\ posts = <<>>
    /\ run = NoRun
    /\ gen = NoGen
    /\ sel = NoQuery
    /\ batch = NoBatch
    /\ ops = NoOps
    /\ pair = NoPair

\* one call of get_access_token on the manager
GetAccessToken ==
    \E in \in TokenInputs(oob, file, tokens, now) :
        \E g \in {get_access_token(oob, file, tokens, now, in[1], in[2])} :
            /\ file' = g.file
            /\ tokens' = g.cache
            /\ tm' = [called |-> TRUE, fileBefore |-> file, nowAt |-> now,
                      resp |-> in[1], save |-> in[2], result |-> g.result,
                      loads |-> g.loads, requests |-> g.requests,
                      writes |-> g.writes, refresh |-> g.refresh]
            /\ UNCHANGED <<oob, now>>
            /\ UNCHANGED posterVars
            /\ UNCHANGED runVars
            /\ UNCHANGED unitVars

\* the clock advances between calls
Tick ==
    /\ now < MaxNow
    /\ now' = now + 1
    /\ UNCHANGED <<oob, file, tokens, tm>>
    /\ UNCHANGED posterVars
    /\ UNCHANGED runVars
    /\ UNCHANGED unitVars

Next == GetAccessToken \/ Tick

Spec == Init /\ [][Next]_vars

\* ------------------------------------------------ poster specification
\* a poster whose token manager starts with an empty cache
InitPoster ==
    /\ oob \in OobValues
    /\ file \in FileValues
    /\ tokens = Blank("none")
    /\ now = StartNow
    /\ tm = NoCall
    /\ ip = NoInit
    /\ w = NoWait
    /\ wh = NoPolls
    /\ products = NoProducts
    /\ posts = <<>>
    /\ run = NoRun
    /\ gen = NoGen
    /\ sel = NoQuery
    /\ batch = NoBatch
    /\ ops = NoOps
    /\ pair = NoPair

\* one call of init_photo_post
InitPhotoPost ==
    /\ w.pc = "idle"
    /\ \E in \in TokenInputs(oob, file, tokens, now) :
        \E http \in HttpInputs(InitReplies,
                    get_access_token(oob, file, tokens, now, in[1], in[2])) :
        \E i \in {init_photo_post(oob, file, tokens, now, in[1], in[2], http)} :
            /\ file' = i.file
            /\ tokens' = i.cache
            /\ ip' = [called |-> TRUE, token |-> i.token,
                      requests |-> i.requests, ret |-> i.ret]
    /\ UNCHANGED <<oob, now, tm, w, wh>>
    /\ UNCHANGED runVars
    /\ UNCHANGED unitVars

\* wait_for_publish is entered with the publish_id of an accepted init:
\* start_time = time.time()
WaitStart ==
    /\ w.pc = "idle"
    /\ ip.called /\ ip.ret.kind = "return" /\ ip.ret.value # None
    /\ \E timeout \in 0..MaxTimeout, interval \in 1..MaxInterval :
        w' = [NoWait EXCEPT !.pc = "loop", !.start = now,
                            !.timeout = timeout, !.interval = interval]
    /\ wh' = NoPolls
    /\ UNCHANGED <<oob, file, tokens, now, tm, ip>>
    /\ UNCHANGED runVars
    /\ UNCHANGED unitVars

\* the observations after a poll that took d seconds and gave sr
after_poll(h, sr, d) ==
    [h EXCEPT
       !.polls = @ + 1,
       !.failed = IF sr.kind = "none" THEN @ + 1 ELSE @,
       !.firstTerminal =
           IF @ = 0 /\ sr.kind = "status" /\ sr.status \in TerminalStatuses
               THEN h.polls + 1 ELSE @,
       !.terminal =
           IF h.firstTerminal = 0 /\ sr.kind = "status"
                                  /\ sr.status \in TerminalStatuses
               THEN sr ELSE @,
       !.tookTime = @ \/ d > 0,
       !.last = sr]

\* the observations of the orchestrator's wait: the polls are counted
count_poll(h, sr, d) == [h EXCEPT !.polls = @ + 1]

\* one pass of the loop: the test, check_publish_status (which takes d \in D
\* seconds), then the return or the sleep; stats: the poll statistics are kept
Poll(D, stats) ==
    /\ w.pc = "loop"
    /\ loop_continues(now, w.start, w.timeout)
    /\ \E in \in TokenInputs(oob, file, tokens, now), d \in D :
        \E http \in HttpInputs(StatusReplies,
                    get_access_token(oob, file, tokens, now, in[1], in[2])) :
        \E c \in {check_publish_status(oob, file, tokens, now, in[1], in[2], http)} :
        \E b \in {loop_body(c.ret)} :
            /\ file' = c.file
            /\ tokens' = c.cache
            /\ wh' = IF stats THEN after_poll(wh, c.ret, d)
                              ELSE count_poll(wh, c.ret, d)
            /\ IF c.ret.kind = "raise"
                  THEN /\ now' = now + d
                       /\ w' = [w EXCEPT !.pc = "raised",
                                         !.elapsed = now + d - w.start]
               ELSE IF b.kind = "return"
                  THEN /\ now' = now + d
                       /\ w' = [w EXCEPT !.pc = "done", !.result = b.result,
                                         !.elapsed = now + d - w.start]
               ELSE /\ now' = sleep(now + d, w.interval)
                    /\ UNCHANGED w
    /\ UNCHANGED <<oob, tm, ip>>

\* a pass of the loop of a direct call of wait_for_publish
WaitPoll ==
    /\ Poll(0..MaxPollTime, TRUE)
    /\ UNCHANGED runVars
    /\ UNCHANGED unitVars

\* the loop test fails: the synthetic TIMEOUT result is returned
Timeout ==
    /\ w.pc = "loop"
    /\ ~loop_continues(now, w.start, w.timeout)
    /\ w' = [w EXCEPT !.pc = "done", !.result = TIMEOUT_RESULT,
                      !.elapsed = now - w.start]
    /\ UNCHANGED <<oob, file, tokens, now, tm, ip, wh>>

WaitTimeout ==
    /\ Timeout
    /\ UNCHANGED runVars
    /\ UNCHANGED unitVars

NextPoster == InitPhotoPost \/ WaitStart \/ WaitPoll \/ WaitTimeout

SpecPoster == InitPoster /\ [][NextPoster]_vars

\* a wait that has been entered goes on: neither the poll (requests.post has
\* a timeout of 30 s, time.sleep returns) nor the return is put off for ever
SpecPosterLive == SpecPoster /\ WF_vars(WaitPoll) /\ WF_vars(WaitTimeout)

\* -------------------------------------------- orchestrator specification
InitRun ==
    /\ oob \in OobValues
    /\ file \in RunFileValues
    /\ tokens = Blank("none")
    /\ now = StartNow
    /\ tm = NoCall
    /\ ip = NoInit
    /\ w = NoWait
    /\ wh = NoPolls
    /\ products \in StoreValues
    /\ posts = <<>>
    /\ run = NoRun
    /\ gen = NoGen
    /\ sel = NoQuery
    /\ batch = NoBatch
    /\ ops = NoOps
    /\ pair = NoPair

\* run_single_post returns v
finish(v) == [run EXCEPT !.pc = "done", !.ret = v]

\* run_single_post is called: step 1, the product is selected (db: the query
\* succeeds or raises) and its image_url is tested
RunSelect ==
    /\ run.pc = "idle"
    /\ \E dry \in BOOLEAN, id \in {None} \cup ItemIds, db \in {"ok", "raise"} :
        \E item \in (IF id # None THEN {get_product(products, id)}
                                  ELSE next_product_for_posting(products)) :
        \E called \in {[run EXCEPT !.dry_run = dry, !.product_id = id,
                                    !.store = products]} :
            run' = IF db = "raise" \/ item = None
                    THEN [called EXCEPT !.pc = "done", !.ret = "false"]
                 ELSE IF Falsy(products[item].image_url)
                    THEN [called EXCEPT !.pc = "done", !.ret = "false",
                                        !.item = item,
                                        !.post_count = products[item].post_count]
                 ELSE [called EXCEPT !.pc = "host", !.item = item,
                                     !.post_count = products[item].post_count]
    /\ UNCHANGED <<oob, file, tokens, now, tm, products, posts>>
    /\ UNCHANGED posterVars
    /\ UNCHANGED unitVars

\* a step 2 that goes on to the generator when get_hosted_url gave None
RunHost_unchecked ==
    /\ run.pc = "host"
    /\ \E hosted \in {"url", "none", "raise"} :
        run' = IF hosted = "raise" THEN finish("false")
                ELSE [run EXCEPT !.pc = "generate", !.hosted = (hosted = "url")]
    /\ UNCHANGED <<oob, file, tokens, now, tm, products, posts>>
    /\ UNCHANGED posterVars
    /\ UNCHANGED unitVars

\* step 2: get_hosted_url gives a URL, None, or raises
RunHost ==
    /\ run.pc = "host"
    /\ \E hosted \in {"url", "none", "raise"} :
        run' = IF hosted = "url" THEN [run EXCEPT !.pc = "generate",
                                                    !.hosted = TRUE]
                               ELSE finish("false")
    /\ UNCHANGED <<oob, file, tokens, now, tm, products, posts>>
    /\ UNCHANGED posterVars
    /\ UNCHANGED unitVars

\* a step 3 that does not test what generate_post_text returned
RunGenerate_unchecked ==
    /\ run.pc = "generate"
    /\ \E key \in BOOLEAN, outs \in [1..(MAX_RETRIES + 1) -> AttemptOutcomes] :
        \E g \in {generate_post_text(key, outs, MAX_RETRIES)} :
        \E made \in {[run EXCEPT !.gen = g.calls, !.gen_ret = g.ret]} :
            run' = IF run.dry_run
                    THEN [made EXCEPT !.pc = "done", !.ret = "true"]
                 ELSE [made EXCEPT !.pc = "publish"]
    /\ UNCHANGED <<oob, file, tokens, now, tm, products, posts>>
    /\ UNCHANGED posterVars
    /\ UNCHANGED unitVars

\* a step 3 without the dry-run exit
RunGenerate_no_dry_exit ==
    /\ run.pc = "generate"
    /\ \E key \in BOOLEAN, outs \in [1..(MAX_RETRIES + 1) -> AttemptOutcomes] :
        \E g \in {generate_post_text(key, outs, MAX_RETRIES)} :
        \E made \in {[run EXCEPT !.gen = g.calls, !.gen_ret = g.ret]} :
            run' = IF g.ret # "post"
                    THEN [made EXCEPT !.pc = "done", !.ret = "false"]
                 ELSE [made EXCEPT !.pc = "publish"]
    /\ UNCHANGED <<oob, file, tokens, now, tm, products, posts>>
    /\ UNCHANGED posterVars
    /\ UNCHANGED unitVars

\* step 3: generate_post_text, then the dry-run exit
RunGenerate ==
    /\ run.pc = "generate"
    /\ \E key \in BOOLEAN, outs \in [1..(MAX_RETRIES + 1) -> AttemptOutcomes] :
        \E g \in {generate_post_text(key, outs, MAX_RETRIES)} :
        \E made \in {[run EXCEPT !.gen = g.calls, !.gen_ret = g.ret]} :
            run' = IF g.ret # "post"
                    THEN [made EXCEPT !.pc = "done", !.ret = "false"]
                 ELSE IF run.dry_run
                    THEN [made EXCEPT !.pc = "done", !.ret = "true"]
                 ELSE [made EXCEPT !.pc = "publish"]
    /\ UNCHANGED <<oob, file, tokens, now, tm, products, posts>>
    /\ UNCHANGED posterVars
    /\ UNCHANGED unitVars

\* step 4, post_product: a new TikTokPoster (an empty token cache),
\* init_photo_post, then wait_for_publish is entered with its defaults
RunPublishInit ==
    /\ run.pc = "publish"
    /\ \E in \in TokenInputs(oob, file, Blank("none"), now) :
        \E http \in HttpInputs(InitReplies,
                    get_access_token(oob, file, Blank("none"), now, in[1], in[2])) :
        \E i \in {init_photo_post(oob, file, Blank("none"), now, in[1], in[2], http)} :
            /\ file' = i.file
            /\ tokens' = i.cache
            /\ ip' = [called |-> TRUE, token |-> i.token,
                      requests |-> i.requests, ret |-> i.ret]
            /\ IF i.ret.kind = "return" /\ i.ret.value # None
                  THEN /\ run' = [run EXCEPT !.pc = "wait", !.inits = @ + i.requests]
                       /\ w' = [NoWait EXCEPT !.pc = "loop", !.start = now,
                                              !.timeout = DEFAULT_TIMEOUT,
                                              !.interval = DEFAULT_INTERVAL]
                  ELSE /\ run' = [run EXCEPT !.pc = "done", !.ret = "false",
                                         !.inits = @ + i.requests]
                       /\ UNCHANGED w
    /\ wh' = NoPolls
    /\ UNCHANGED <<oob, now, tm, products, posts>>
    /\ UNCHANGED unitVars

\* a pass of the loop of the wait_for_publish of post_product; the clock of
\* the orchestrator specification moves in the sleeps only
RunPoll ==
    /\ run.pc = "wait"
    /\ Poll({0}, FALSE)
    /\ UNCHANGED runVars
    /\ UNCHANGED unitVars

RunTimeout ==
    /\ run.pc = "wait"
    /\ Timeout
    /\ UNCHANGED runVars
    /\ UNCHANGED unitVars

\* step 5: the result of post_product is recorded (lg, up: add_post_log and
\* update_product succeed or raise; a call that raises is rolled back)
RunRecord ==
    /\ run.pc = "wait"
    /\ w.pc \in {"done", "raised"}
    /\ \E lg \in {"ok", "raise"}, up \in {"ok", "raise"} :
        IF w.pc = "raised"
            THEN /\ run' = finish("false")
                 /\ UNCHANGED <<products, posts>>
        ELSE IF w.result.success
            THEN /\ posts' = IF lg = "ok"
                                THEN Append(posts, Post(run.item, ip.ret.value, "published"))
                                ELSE posts
                 /\ products' =
                        IF lg = "ok" /\ up = "ok"
                            THEN record_published(products, run.item,
                                                  run.post_count, now)
                            ELSE products
                 /\ run' = [finish(IF lg = "ok" /\ up = "ok" THEN "true"
                                                              ELSE "false")
                                EXCEPT !.db = IF lg = "raise" THEN "log_raised"
                                              ELSE IF up = "raise"
                                                  THEN "update_raised"
                                              ELSE "ok"]
        ELSE /\ posts' = IF lg = "ok"
                            THEN Append(posts, Post(run.item, ip.ret.value, "failed"))
                            ELSE posts
             /\ run' = [finish("false")
                            EXCEPT !.db = IF lg = "raise" THEN "log_raised"
                                                         ELSE "ok"]
             /\ UNCHANGED products
    /\ UNCHANGED <<oob, file, tokens, now, tm>>
    /\ UNCHANGED posterVars
    /\ UNCHANGED unitVars

NextRun ==
    RunSelect \/ RunHost \/ RunGenerate \/ RunPublishInit \/ RunPoll
        \/ RunTimeout \/ RunRecord

SpecRun == InitRun /\ [][NextRun]_vars

\* ---------------------------------------------- generator specification
InitGen ==
    /\ oob = ""
    /\ file = Blank("absent")
    /\ tokens = Blank("none")
    /\ now = StartNow
    /\ tm = NoCall
    /\ ip = NoInit
    /\ w = NoWait
    /\ wh = NoPolls
    /\ products = NoProducts
    /\ posts = <<>>
    /\ run = NoRun
    /\ gen = NoGen
    /\ sel = NoQuery
    /\ batch = NoBatch
    /\ ops = NoOps
    /\ pair = NoPair

\* generate_post_text is called: the test of ANTHROPIC_API_KEY
GenCall ==
    /\ gen.pc = "idle"
    /\ \E key \in BOOLEAN, max_retries \in 0..MaxRetries :
        gen' = IF key
                 THEN [NoGen EXCEPT !.pc = "loop", !.key = TRUE,
                                    !.max_retries = max_retries]
                 ELSE [NoGen EXCEPT
                         !.pc = "done", !.max_retries = max_retries,
                         !.ret = generate_post_text(FALSE, <<>>, max_retries).ret]
    /\ UNCHANGED <<oob, file, tokens, now, tm, sel, batch, ops, pair>>
    /\ UNCHANGED posterVars
    /\ UNCHANGED runVars

\* one attempt of the loop: the service is called once and answers sv; the
\* call ends when the attempts made so far make generate_post_text return
\* or raise, or when they are all the attempts there are
GenAttempt ==
    /\ gen.pc = "loop"
    /\ \E sv \in ServiceOutcomes :
        \E outs \in {Append(gen.outs, attempt_outcome(sv))} :
        \E made \in {[gen EXCEPT !.outs = outs, !.calls = @ + 1]} :
            gen' = IF \/ attempts_from(outs, 1, Len(outs)).ret # "none"
                      \/ Len(outs) >= attempts(gen.max_retries)
                     THEN [made EXCEPT
                             !.pc = "done",
                             !.ret = generate_post_text(TRUE, outs,
                                                        gen.max_retries).ret,
                             !.reply = IF outs[Len(outs)] = "valid"
                                          THEN sv.text ELSE <<>>,
                             !.result = IF outs[Len(outs)] = "valid"
                                           THEN parse_response(sv.text)
                                           ELSE NoPostText]
                     ELSE made
    /\ UNCHANGED <<oob, file, tokens, now, tm, sel, batch, ops, pair>>
    /\ UNCHANGED posterVars
    /\ UNCHANGED runVars

NextGen == GenCall \/ GenAttempt

SpecGen == InitGen /\ [][NextGen]_vars

\* -------------------------------------------------- selector specification
InitStore ==
    /\ oob = ""
    /\ file = Blank("absent")
    /\ tokens = Blank("none")
    /\ now = StartNow
    /\ tm = NoCall
    /\ ip = NoInit
    /\ w = NoWait
    /\ wh = NoPolls
    /\ products \in [ItemIds -> RowValues]
    /\ posts = <<>>
    /\ run = NoRun
    /\ gen = NoGen
    /\ sel = NoQuery
    /\ batch = NoBatch
    /\ ops = NoOps
    /\ pair = NoPair

\* get_products_for_posting is called
GetProductsForPosting ==
    /\ \E rows \in get_products_for_posting(products) :
        sel' = [called |-> TRUE, op |-> "list", rows |-> rows, next |-> None]
    /\ UNCHANGED <<oob, file, tokens, now, tm, gen, batch, ops, pair>>
    /\ UNCHANGED posterVars
    /\ UNCHANGED runVars

\* get_next_product_for_posting is called
GetNextProductForPosting ==
    /\ \E rows \in get_products_for_posting(products) :
        sel' = [called |-> TRUE, op |-> "next", rows |-> rows,
                next |-> first_or_none(rows)]
    /\ UNCHANGED <<oob, file, tokens, now, tm, gen, batch, ops, pair>>
    /\ UNCHANGED posterVars
    /\ UNCHANGED runVars

NextStore == GetProductsForPosting \/ GetNextProductForPosting

SpecStore == InitStore /\ [][NextStore]_vars

\* ------------------------------------------ store-operations specification
\* sequences of operations on the store: orchestration runs, ingestion of
\* product data, deactivation
InitOps ==
    /\ oob = ""
    /\ file = Blank("absent")
    /\ tokens = Blank("none")
    /\ now = StartNow
    /\ tm = NoCall
    /\ ip = NoInit
    /\ w = NoWait
    /\ wh = NoPolls
    /\ products \in StoreValues
    /\ posts = <<>>
    /\ run = NoRun
    /\ gen = NoGen
    /\ sel = NoQuery
    /\ batch = NoBatch
    /\ ops = NoOps
    /\ pair = NoPair

\* the products table after add_product: INSERT OR REPLACE removes the row
\* with that item_id and inserts a new one, whose last_posted_at, post_count
\* and is_active are not in the column list and take their defaults
add_product(P, item, img) ==
    [P EXCEPT ![item] = Product(TRUE, img, 0, NULL_TIME, TRUE)]

\* the products table after update_product(item_id, {"is_active": False}):
\* UPDATE ... WHERE item_id = ? changes the row when there is one
deactivate_product(P, item) ==
    IF P[item].present THEN [P EXCEPT ![item].is_active = FALSE] ELSE P

\* add_product is called (register_products_from_urls, register_product_from_csv)
AddProduct ==
    /\ \E item \in ItemIds, img \in {None, "img"} :
        products' = add_product(products, item, img)
    /\ UNCHANGED <<oob, file, tokens, now, tm, posts, run>>
    /\ UNCHANGED posterVars
    /\ UNCHANGED unitVars

\* deactivate_product is called
DeactivateProduct ==
    /\ \E item \in ItemIds :
        products' = deactivate_product(products, item)
    /\ UNCHANGED <<oob, file, tokens, now, tm, posts, run>>
    /\ UNCHANGED posterVars
    /\ UNCHANGED unitVars

\* what step 5 of a run can leave behind
\*   "no_entry"      : the run ended before step 5, or add_post_log raised
\*   "failed"        : the wait ended in FAILED or TIMEOUT
\*   "published"     : PUBLISH_COMPLETE, the entry and the statistics written
\*   "update_raised" : PUBLISH_COMPLETE, the entry written, update_product
\*                     raised
RunOutcomes == {"no_entry", "failed", "published", "update_raised"}

\* a log in which the entry of a run takes the place of the last entry
log_after_overwriting(L, item, out) ==
    CASE out = "no_entry" -> L
      [] L = <<>> -> Append(L, Post(item, "pub_1", "failed"))
      [] out = "failed" -> [L EXCEPT ![Len(L)] = Post(item, "pub_1", "failed")]
      [] OTHER -> [L EXCEPT ![Len(L)] = Post(item, "pub_1", "published")]

\* the log after a run on item that ended with out
log_after(L, item, out) ==
    CASE out = "no_entry" -> L
      [] out = "failed" -> Append(L, Post(item, "pub_1", "failed"))
      [] OTHER -> Append(L, Post(item, "pub_1", "published"))

\* the products table after a run on item that ended with out at time t
store_after(P, item, post_count, out, t) ==
    IF out = "published" THEN record_published(P, item, post_count, t) ELSE P

\* a whole non-dry run of run_single_post, of d seconds: the product is
\* selected; without a product or without an image the run ends; otherwise
\* the image is hosted, the text generated, the post published and the
\* result recorded, with one of the outcomes of RunOutcomes
OpsRun ==
    /\ Len(posts) < MaxLog
    /\ \E id \in {None} \cup ItemIds, out \in RunOutcomes, d \in 0..1 :
        \E item \in (IF id # None THEN {get_product(products, id)}
                                  ELSE next_product_for_posting(products)) :
            /\ now + d <= MaxNow
            /\ now' = now + d
            /\ IF item = None \/ Falsy(products[item].image_url)
                  THEN UNCHANGED <<products, posts>>
                  ELSE /\ products[item].post_count < MaxPosts
                       /\ posts' = log_after(posts, item, out)
                       /\ products' = store_after(products, item,
                                          products[item].post_count, out, now + d)
    /\ UNCHANGED <<oob, file, tokens, tm, run>>
    /\ UNCHANGED posterVars
    /\ UNCHANGED unitVars

NextOps == AddProduct \/ DeactivateProduct \/ OpsRun

SpecOps == InitOps /\ [][NextOps]_vars

\* --------------------------------------------- repeated runs specification
\* stores a sequence of runs may start from
RotationStores ==
    StoreValues
    \cup {[i \in ItemIds |-> Product(TRUE, "img", 0, NULL_TIME, TRUE)],
          [i \in ItemIds |-> IF i = "p1"
                                THEN Product(TRUE, None, 0, NULL_TIME, TRUE)
                                ELSE Product(TRUE, "img", 0, NULL_TIME, TRUE)],
          [i \in ItemIds |-> IF i = "p1"
                                THEN Product(TRUE, "img", 0, NULL_TIME, FALSE)
                                ELSE Product(TRUE, "img", 0, NULL_TIME, TRUE)]}

InitRuns ==
    /\ oob = ""
    /\ file = Blank("absent")
    /\ tokens = Blank("none")
    /\ now = StartNow
    /\ tm = NoCall
    /\ ip = NoInit
    /\ w = NoWait
    /\ wh = NoPolls
    /\ products \in RotationStores
    /\ posts = <<>>
    /\ run = NoRun
    /\ gen = NoGen
    /\ sel = NoQuery
    /\ batch = NoBatch
    /\ ops = [NoOps EXCEPT !.store0 = products]
    /\ pair = NoPair

\* one whole non-dry run of run_single_post with product_id in Ids, run
\* after the run before it has returned.  The clock is read when the run
\* writes, d seconds after the write of the run before
Run(Ids) ==
    /\ \E id \in Ids, out \in RunOutcomes, d \in 0..1 :
        \E item \in (IF id # None THEN {get_product(products, id)}
                                  ELSE next_product_for_posting(products)) :
        \E writes \in {item # None /\ ~Falsy(products[item].image_url)
                                   /\ out # "no_entry"} :
            /\ writes => ops.runs < MaxRuns
            /\ now' = IF writes THEN now + d ELSE now
            /\ posts' = IF writes THEN log_after(posts, item, out) ELSE posts
            /\ products' =
                    IF writes
                        THEN store_after(products, item,
                                         products[item].post_count, out, now + d)
                        ELSE products
            /\ ops' = [ops EXCEPT
                         !.runs = IF writes THEN @ + 1 ELSE @,
                         !.selected = IF item # None THEN @ \cup {item} ELSE @,
                         !.rotation = /\ @
                                      /\ id = None
                                      /\ writes /\ out = "published"
                                      /\ (d > 0 \/ ops.runs = 0),
                         !.tick = ~@]
    /\ UNCHANGED <<oob, file, tokens, tm, run, gen, sel, batch, pair>>
    /\ UNCHANGED posterVars

\* a run in rotation mode or with the product_id override
RepeatRun == Run({None} \cup ItemIds)

NextRuns == RepeatRun

SpecRuns == InitRuns /\ [][NextRuns]_vars

\* a run in rotation mode
RotationRun == Run({None})

NextRotation == RotationRun

\* rotation-mode runs are repeated for ever: main makes one run, and it is
\* invoked again and again after the run before has returned
SpecRotationLive ==
    InitRuns /\ [][NextRotation]_vars /\ WF_vars(RotationRun)

\* ------------------------------------------ interleaved runs specification
InitPair ==
    /\ oob = ""
    /\ file = Blank("absent")
    /\ tokens = Blank("none")
    /\ now = StartNow
    /\ tm = NoCall
    /\ ip = NoInit
    /\ w = NoWait
    /\ wh = NoPolls
    /\ products \in StoreValues
    /\ posts = <<>>
    /\ run = NoRun
    /\ gen = NoGen
    /\ sel = NoQuery
    /\ batch = NoBatch
    /\ ops = [NoOps EXCEPT !.store0 = products]
    /\ pair = NoPair

\* run r returns v
pair_finish(r, v) == [pair EXCEPT ![r].pc = "done", ![r].ret = v]

\* step 1 of run r: the product row is read (its own connection)
PairSelect(r) ==
    /\ pair[r].pc = "idle"
    /\ \E id \in {None} \cup ItemIds :
        \E item \in (IF id # None THEN {get_product(products, id)}
                                  ELSE next_product_for_posting(products)) :
            pair' = IF item = None \/ Falsy(products[item].image_url)
                       THEN pair_finish(r, "false")
                       ELSE [pair EXCEPT
                               ![r].pc = "publish", ![r].item = item,
                               ![r].post_count = products[item].post_count]
    /\ UNCHANGED <<oob, file, tokens, now, tm, products, posts, run>>
    /\ UNCHANGED <<gen, sel, batch, ops>>
    /\ UNCHANGED posterVars

\* steps 2 to 4 of run r, of d seconds: hosting, generation or init fails
\* and the run returns, or the wait returns success or failure
PairPublish(r) ==
    /\ pair[r].pc = "publish"
    /\ \E out \in {"ended", "published", "failed"}, d \in 0..1 :
        /\ now + d <= MaxNow
        /\ now' = now + d
        /\ pair' = IF out = "ended"
                      THEN pair_finish(r, "false")
                      ELSE [pair EXCEPT ![r].pc = "log",
                                        ![r].success = (out = "published")]
    /\ UNCHANGED <<oob, file, tokens, tm, products, posts, run>>
    /\ UNCHANGED <<gen, sel, batch, ops>>
    /\ UNCHANGED posterVars

\* step 5 of run r, add_post_log: the entry is committed, or the call raises
PairLog(r) ==
    /\ pair[r].pc = "log"
    /\ \E lg \in {"ok", "raise"} :
        /\ posts' = IF lg = "ok"
                       THEN Append(posts, Post(pair[r].item, "pub_1",
                                IF pair[r].success THEN "published"
                                                   ELSE "failed"))
                       ELSE posts
        /\ pair' = IF lg = "ok" /\ pair[r].success
                      THEN [pair EXCEPT ![r].pc = "update"]
                      ELSE pair_finish(r, "false")
    /\ UNCHANGED <<oob, file, tokens, now, tm, products, run>>
    /\ UNCHANGED <<gen, sel, batch, ops>>
    /\ UNCHANGED posterVars

\* a statistics update that adds 1 to the post_count found in the table
PairUpdate_in_place(r) ==
    /\ pair[r].pc = "update"
    /\ \E up \in {"ok", "raise"} :
        /\ products' =
                IF up = "ok"
                    THEN record_published(products, pair[r].item,
                                          products[pair[r].item].post_count, now)
                    ELSE products
        /\ pair' = pair_finish(r, IF up = "ok" THEN "true" ELSE "false")
    /\ UNCHANGED <<oob, file, tokens, now, tm, posts, run>>
    /\ UNCHANGED <<gen, sel, batch, ops>>
    /\ UNCHANGED posterVars

\* step 5 of run r, update_product: post_count is set to the post_count read
\* at step 1 plus 1, or the call raises
PairUpdate(r) ==
    /\ pair[r].pc = "update"
    /\ \E up \in {"ok", "raise"} :
        /\ products' =
                IF up = "ok"
                    THEN record_published(products, pair[r].item,
                                          pair[r].post_count, now)
                    ELSE products
        /\ pair' = pair_finish(r, IF up = "ok" THEN "true" ELSE "false")
    /\ UNCHANGED <<oob, file, tokens, now, tm, posts, run>>
    /\ UNCHANGED <<gen, sel, batch, ops>>
    /\ UNCHANGED posterVars

NextPair ==
    \E r \in Runs :
        PairSelect(r) \/ PairPublish(r) \/ PairLog(r) \/ PairUpdate(r)

SpecPair == InitPair /\ [][NextPair]_vars

\* ------------------------------------------- variations specification
InitBatch ==
    /\ oob = ""
    /\ file = Blank("absent")
    /\ tokens = Blank("none")
    /\ now = StartNow
    /\ tm = NoCall
    /\ ip = NoInit
    /\ w = NoWait
    /\ wh = NoPolls
    /\ products = NoProducts
    /\ posts = <<>>
    /\ run = NoRun
    /\ gen = NoGen
    /\ sel = NoQuery
    /\ batch = NoBatch
    /\ ops = NoOps
    /\ pair = NoPair

\* generate_multiple_variations is called: the preset list is cut to count;
\* with no style left the empty list is returned
VariationsCall ==
    /\ batch.pc = "idle"
    /\ \E count \in (-MaxCount)..MaxCount, key \in BOOLEAN :
        \E styles \in {slice_to(STYLE_TEMPLATES, count)} :
            batch' = [NoBatch EXCEPT
                        !.pc = IF styles = <<>> THEN "done" ELSE "loop",
                        !.count = count, !.key = key, !.styles = styles]
    /\ UNCHANGED <<oob, file, tokens, now, tm, gen, sel, ops, pair>>
    /\ UNCHANGED posterVars
    /\ UNCHANGED runVars

\* one pass of the loop: generate_post_text is called for the next style
\* with the default max_retries; a post is appended with its style, None is
\* skipped, an exception leaves generate_multiple_variations
VariationsStyle ==
    /\ batch.pc = "loop"
    /\ \E outs \in [1..(MAX_RETRIES + 1) -> AttemptOutcomes] :
        \E style \in {batch.styles[Len(batch.calls) + 1]} :
        \E g \in {generate_post_text(batch.key, outs, MAX_RETRIES)} :
        \E called \in {[batch EXCEPT !.calls = Append(@, style)]} :
            batch' = IF g.ret = "raise"
                        THEN [called EXCEPT !.pc = "raised"]
                     ELSE [called EXCEPT
                             !.pc = IF Len(called.calls) = Len(batch.styles)
                                       THEN "done" ELSE "loop",
                             !.results = IF g.ret = "post"
                                            THEN Append(@, style) ELSE @,
                             !.failed = IF g.ret = "post"
                                           THEN @ ELSE @ \cup {style}]
    /\ UNCHANGED <<oob, file, tokens, now, tm, gen, sel, ops, pair>>
    /\ UNCHANGED posterVars
    /\ UNCHANGED runVars

NextBatch == VariationsCall \/ VariationsStyle

SpecBatch == InitBatch /\ [][NextBatch]_vars

\* ------------------------------------------------ claims: token manager
\* the record found in the file by the last call had expired at that time
ExpiredAtCall ==
    /\ tm.fileBefore.kind = "record"
    /\ tm.fileBefore.expires_at.tag = "iso"
    /\ tm.nowAt > tm.fileBefore.expires_at.t

\* the record found in the file by the last call expires after that time
FutureAtCall ==
    /\ tm.fileBefore.kind = "record"
    /\ tm.fileBefore.expires_at.tag = "iso"
    /\ tm.nowAt < tm.fileBefore.expires_at.t

\* the refresh request of the last call was answered with a new access token
DeliveredAtCall ==
    /\ tm.requests = 1
    /\ tm.resp.kind = "json"
    /\ tm.resp.access_token # ABSENT

\* C1: with no out-of-band token, a call that finds an expired record returns
\* none or the access token that the refresh of this call delivered
C1_ExpiredTokenNeverReturned ==
    (tm.called /\ oob = "" /\ ExpiredAtCall /\ tm.result.kind = "return")
        => \/ tm.result.value = None
           \/ DeliveredAtCall /\ tm.result.value = tm.resp.access_token

\* C2 (as stated): every call that finds an expired record holding a refresh
\* token sends exactly one refresh request
C2_ExactlyOneRefresh ==
    (tm.called /\ ExpiredAtCall /\ ~Falsy(tm.fileBefore.refresh_token))
        => tm.requests = 1

\* C2 (amended): with no out-of-band token configured, every call that finds
\* an expired record holding a refresh token sends exactly one refresh request
C2_ExactlyOneRefreshWithoutOverride ==
    (tm.called /\ oob = "" /\ ExpiredAtCall /\ ~Falsy(tm.fileBefore.refresh_token))
        => tm.requests = 1

C2_Witness ==
    /\ tm.called /\ oob = "" /\ ExpiredAtCall
    /\ ~Falsy(tm.fileBefore.refresh_token)
    /\ tm.requests = 1 /\ tm.refresh = "true"

\* C3 (as stated): every call that finds a record expiring in the future
\* sends no refresh request and returns the stored access token
C3_FutureRecordReturnedAsIs ==
    (tm.called /\ FutureAtCall)
        => /\ tm.requests = 0
           /\ tm.result = Return(tm.fileBefore.access_token)

\* C3 (amended): with no out-of-band token configured, every call that finds
\* a record expiring in the future sends no refresh request and returns the
\* stored access token
C3_FutureRecordReturnedAsIsWithoutOverride ==
    (tm.called /\ oob = "" /\ FutureAtCall)
        => /\ tm.requests = 0
           /\ tm.result = Return(tm.fileBefore.access_token)

C3_Witness ==
    /\ tm.called /\ oob = "" /\ FutureAtCall
    /\ tm.result = Return("at_old") /\ tm.requests = 0

\* C4: when the endpoint delivers a token pair and the write of the file
\* fails, refresh_access_token reports failure and get_access_token returns
\* none
C4_FailedWriteIsFailedRefresh ==
    (tm.called /\ DeliveredAtCall /\ tm.save # "ok")
        => /\ tm.refresh = "false"
           /\ tm.result = Return(None)

\* the expired record of the last call could not be refreshed: no refresh
\* token, or the request that was sent failed or brought no access token
CannotRefreshAtCall ==
    /\ ExpiredAtCall
    /\ \/ Falsy(tm.fileBefore.refresh_token)
       \/ /\ tm.requests = 1
          /\ \/ tm.resp.kind # "json"
             \/ tm.resp.access_token = ABSENT

\* C5 (as stated): an expired record that cannot be refreshed yields none and
\* leaves the file as it was; an absent or unreadable file yields none
C5_FailedRefreshYieldsNone ==
    tm.called =>
        /\ CannotRefreshAtCall
            => (tm.result = Return(None) /\ file = tm.fileBefore)
        /\ tm.fileBefore.kind \in {"absent", "corrupt"}
            => tm.result = Return(None)

\* C5 (amended): the same, with no out-of-band token configured
C5_FailedRefreshYieldsNoneWithoutOverride ==
    (tm.called /\ oob = "") =>
        /\ CannotRefreshAtCall
            => (tm.result = Return(None) /\ file = tm.fileBefore)
        /\ tm.fileBefore.kind \in {"absent", "corrupt"}
            => tm.result = Return(None)

C5_Witness ==
    /\ tm.called /\ oob = "" /\ CannotRefreshAtCall
    /\ tm.requests = 1 /\ tm.resp.kind = "http_error"
    /\ tm.result = Return(None)

\* C6: with an out-of-band token the call returns exactly that token, sends
\* no refresh request and neither reads nor writes the credential file
C6_OverrideReturnedUnconditionally ==
    (tm.called /\ oob # "")
        => /\ tm.result = Return(oob)
           /\ tm.requests = 0 /\ tm.loads = 0 /\ tm.writes = 0
           /\ file = tm.fileBefore

C6_Witness ==
    /\ tm.called /\ oob # "" /\ ExpiredAtCall
    /\ ~Falsy(tm.fileBefore.refresh_token)
    /\ tm.result = Return(oob)

\* ------------------------------------------- claims: publish state machine
\* the status source reported PUBLISH_COMPLETE on the 3rd poll and nothing
\* terminal before, the interval is 1 and only the sleeps took time
CompleteOnThirdPoll ==
    /\ wh.polls = 3 /\ wh.firstTerminal = 3
    /\ wh.terminal.status = STATUS_PUBLISH_COMPLETE
    /\ w.interval = 1 /\ ~wh.tookTime

\* C7 (as stated): PUBLISH_COMPLETE on the 3rd poll with a 1-unit interval is
\* returned as success when at least 3 and fewer than 4 units have elapsed
C7_ThirdPollAfterThreeIntervals ==
    CompleteOnThirdPoll
        => /\ w.pc = "done" /\ w.result.success
           /\ w.elapsed >= 3 /\ w.elapsed < 4

\* C7 (amended): PUBLISH_COMPLETE on the 3rd poll with a 1-unit interval is
\* returned as success when at least 2 and fewer than 3 units have elapsed:
\* the first poll is made at once and a sleep follows each non-terminal poll
C7_ThirdPollAfterTwoIntervals ==
    CompleteOnThirdPoll
        => /\ w.pc = "done" /\ w.result.success
           /\ w.elapsed >= 2 /\ w.elapsed < 3

C7_Witness ==
    /\ CompleteOnThirdPoll
    /\ w.pc = "done" /\ w.result.success /\ w.elapsed = 2

C9_StopsAtFirstTerminalStatus ==
    wh.firstTerminal > 0
        => /\ w.pc = "done"
           /\ wh.polls = wh.firstTerminal
           /\ w.result.status = wh.terminal.status

\* ------------------------------------------------- claims: orchestrator
\* C10: a call of init_photo_post that has a token sends exactly one request
\* to the init endpoint, whatever the reply, and a run of run_single_post
\* sends at most one
C10_InitNeverRetried ==
    /\ (ip.called /\ ip.token.kind = "return" /\ ~Falsy(ip.token.value))
            => ip.requests = 1
    /\ run.inits <= 1

C10_Witness ==
    /\ run.pc = "done" /\ run.ret = "false" /\ run.inits = 1
    /\ ip.called /\ ~Falsy(ip.token.value) /\ ip.requests = 1
    /\ ip.ret = Return(None)

\* ------------------------------------------- claims: publish-init failures
\* the replies by which the platform rejects a submitted publish-init request
ApiRejections ==
    {h \in InitReplies :
        h.kind = "json" /\ ~(h.ok200 /\ h.err_ok /\ ~Falsy(h.publish_id))}

\* what init_photo_post reports to its caller when the platform rejects the
\* request it submitted
RejectionResults ==
    {init_photo_post("env_token", Blank("absent"), Blank("none"), StartNow,
                     NoReply, "ok", h).ret : h \in ApiRejections}

\* C11: a call of init_photo_post that obtains no access token submits no
\* request, and what it reports to its caller is not what a call reports
\* whose submitted request the platform rejected
C11_NoTokenFailureIsDistinct ==
    (ip.called /\ ip.token.kind = "return" /\ Falsy(ip.token.value))
        => /\ ip.requests = 0
           /\ ip.ret \notin RejectionResults

\* ------------------------------------------------------ claims: generator
\* every attempt made failed by an empty body, a validation error or an
\* API error of the service
OnlyRetriedFailures ==
    \A k \in DOMAIN gen.outs : gen.outs[k] \in {"empty_body", "invalid", "api_error"}

\* C12 (as stated): generate_post_text calls the service once per attempt and
\* at most max_retries + 1 times, and a call in which no attempt gave a valid
\* result has called it exactly max_retries + 1 times
C12_AllAttemptsUsed ==
    /\ gen.calls = Len(gen.outs)
    /\ gen.calls <= gen.max_retries + 1
    /\ (gen.pc = "done" /\ gen.ret = "none" /\ OnlyRetriedFailures)
            => gen.calls = gen.max_retries + 1

\* C12 (amended): the same, where the exact count is claimed for the calls
\* made with ANTHROPIC_API_KEY configured
C12_AllAttemptsUsedWithKey ==
    /\ gen.calls = Len(gen.outs)
    /\ gen.calls <= gen.max_retries + 1
    /\ (gen.pc = "done" /\ gen.key /\ gen.ret = "none" /\ OnlyRetriedFailures)
            => gen.calls = gen.max_retries + 1

C12_Witness ==
    /\ gen.pc = "done" /\ gen.key /\ gen.ret = "none"
    /\ gen.max_retries = MAX_RETRIES /\ gen.calls = 3
    /\ gen.outs = <<"api_error", "empty_body", "invalid">>

\* C13: every result generate_post_text returns has 5 to 7 hashtags
C13_HashtagCountInRange ==
    (gen.pc = "done" /\ gen.ret = "post")
        => /\ Len(gen.result.hashtags) >= MIN_HASHTAG_COUNT
           /\ Len(gen.result.hashtags) <= MAX_HASHTAG_COUNT

\* C14 (as stated): every result generate_post_text returns has a body that
\* begins with PR and a full_text that, with its hashtags removed, has at
\* most 300 characters
C14_MarkerAndLength ==
    (gen.pc = "done" /\ gen.ret = "post")
        => /\ starts_with_pr(gen.result.body)
           /\ text_len(sub_hashtags(gen.result.full_text)) <= MAX_BODY_LENGTH

\* C14 (amended): every result generate_post_text returns has a body that
\* begins with PR and a full_text that, with its hashtags removed and the
\* white space at both ends stripped, has at most 300 characters
C14_MarkerAndStrippedLength ==
    (gen.pc = "done" /\ gen.ret = "post")
        => /\ starts_with_pr(gen.result.body)
           /\ text_len(strip(sub_hashtags(gen.result.full_text)))
                  <= MAX_BODY_LENGTH

C14_Witness ==
    /\ gen.pc = "done" /\ gen.ret = "post"
    /\ starts_with_pr(gen.result.body)
    /\ text_len(strip(sub_hashtags(gen.result.full_text))) = MAX_BODY_LENGTH

\* ------------------------------------------------------- claims: selector
\* the products with is_active set
ActiveProducts == {i \in ItemIds : products[i].present /\ products[i].is_active}

\* row a may stand before row b: a never-posted row before a posted one, then
\* the smaller post_count first, then the older last_posted_at first
InRotationOrder(a, b) ==
    /\ b.last_posted_at = NULL_TIME => a.last_posted_at = NULL_TIME
    /\ (a.last_posted_at = NULL_TIME) = (b.last_posted_at = NULL_TIME)
        => /\ a.post_count <= b.post_count
           /\ a.post_count = b.post_count
                => a.last_posted_at <= b.last_posted_at

\* C15: get_products_for_posting returns exactly the active products, each
\* once, in rotation order, and get_next_product_for_posting returns the
\* first of them, or none when there is none
C15_ActiveProductsInRotationOrder ==
    sel.called =>
        /\ {sel.rows[i] : i \in DOMAIN sel.rows} = ActiveProducts
        /\ Len(sel.rows) = Cardinality(ActiveProducts)
        /\ \A i, j \in DOMAIN sel.rows :
                i < j => InRotationOrder(products[sel.rows[i]],
                                         products[sel.rows[j]])
        /\ sel.op = "next"
            => sel.next = (IF sel.rows = <<>> THEN None ELSE sel.rows[1])

C15_Witness ==
    /\ sel.called /\ sel.op = "next" /\ Len(sel.rows) = 2
    /\ sel.next = sel.rows[1]
    /\ \E i \in ItemIds : products[i].present /\ ~products[i].is_active
    /\ products[sel.rows[1]].last_posted_at # NULL_TIME
    /\ products[sel.rows[1]].post_count < products[sel.rows[2]].post_count
    /\ products[sel.rows[1]].last_posted_at > products[sel.rows[2]].last_posted_at

\* the products of the example: A = p1 never posted, B = p2 with post_count
\* 2, C = p3 with post_count 0 and posted once
ExampleStore ==
    [i \in ItemIds |->
        IF i = "p1" THEN Product(TRUE, "img", 0, NULL_TIME, TRUE)
        ELSE IF i = "p2" THEN Product(TRUE, "img", 2, 1, TRUE)
        ELSE Product(TRUE, "img", 0, 1, TRUE)]

\* C16: what get_products_for_posting returns is the only sequence it can
\* return for these products, in whatever order they were inserted; for the
\* products of the example it is [A, C, B]
C16_OrderIndependentOfInsertion ==
    sel.called =>
        /\ \A rows \in get_products_for_posting(products) : rows = sel.rows
        /\ products = ExampleStore => sel.rows = <<"p1", "p3", "p2">>

\* ------------------------------------- claims: recording and dry runs
\* a run that was not a dry run has ended and its publish reached
\* PUBLISH_COMPLETE
PublishedRun ==
    /\ run.pc = "done" /\ ~run.dry_run
    /\ ip.called /\ w.pc = "done" /\ w.result.success

\* the log holds exactly one entry, for the selected product, with status st
OneLogEntry(st) ==
    /\ Len(posts) = 1
    /\ posts[1].item_id = run.item
    /\ posts[1].status = st

\* the statistics of the selected product were raised by one post made now,
\* and no other product changed
OnePostCounted ==
    products = [run.store EXCEPT
                  ![run.item].post_count = run.store[run.item].post_count + 1,
                  ![run.item].last_posted_at = now]

UnpublishedRun ==
    /\ run.pc = "done" /\ ~run.dry_run /\ ip.called
    /\ \/ ip.ret = Return(None)
       \/ w.pc = "done" /\ ~w.result.success

\* C18: such a run has appended exactly one failed entry and has left the
\* products table as it found it
C18_UnpublishedRunIsLogged ==
    UnpublishedRun => OneLogEntry("failed") /\ products = run.store

\* the generator of the run made its 3 attempts and returned none
GeneratorExhausted ==
    /\ run.gen_ret = "none" /\ run.gen = MAX_RETRIES + 1

\* C19: a run whose generator has exhausted its 3 attempts reports failure,
\* has sent no publish-init request and has written no log entry
C19_ExhaustedGeneratorStopsRun ==
    GeneratorExhausted
        => /\ run.pc = "done" /\ run.ret = "false"
           /\ ~ip.called /\ run.inits = 0
           /\ posts = <<>>

C19_Witness ==
    /\ GeneratorExhausted /\ ~run.dry_run /\ run.hosted
    /\ run.pc = "done" /\ run.ret = "false" /\ ~ip.called

\* C20: a dry run sends no init and no status request, appends no log entry
\* and changes no product; when it has ended it reports success exactly when
\* a product was selected, its image was hosted and a post text was generated
C20_DryRunHasNoEffect ==
    (run.dry_run /\ run.pc # "idle")
        => /\ ~ip.called /\ run.inits = 0
           /\ w.pc = "idle" /\ wh.polls = 0
           /\ posts = <<>>
           /\ products = run.store
           /\ run.pc = "done"
                => (run.ret = "true"
                        <=> (run.item # None /\ run.hosted
                                /\ run.gen_ret = "post"))

C20_Witness ==
    /\ run.dry_run /\ run.pc = "done" /\ run.ret = "true"
    /\ run.item # None /\ run.hosted /\ run.gen_ret = "post" /\ run.gen = 2
    /\ ~ip.called /\ posts = <<>> /\ products = run.store

\* ------------------------------------------------ claims: store operations
\* C21: no operation on the store lowers the post_count of a product
C21_PostCountNeverDecreases ==
    [][\A i \in ItemIds :
          (products[i].present /\ products'[i].present)
              => products'[i].post_count >= products[i].post_count]_vars

\* ------------------------------------------------ claims: error handling
\* a step of the run raised: the generator, init_photo_post, a poll of
\* wait_for_publish, add_post_log or update_product
StepRaised ==
    \/ run.gen_ret = "raise"
    \/ (ip.called /\ ip.ret.kind = "raise")
    \/ w.pc = "raised"
    \/ run.db \in {"log_raised", "update_raised"}

\* the log holds a published entry
PublishedEntry == \E k \in 1..Len(posts) : posts[k].status = "published"

\* C22: a run in which a step raised returns failure, and a published log
\* entry exists for the run only if post_count and last_posted_at of its
\* product were updated too
C22_NoPartialWrite ==
    run.pc = "done"
        => /\ StepRaised => run.ret = "false"
           /\ PublishedEntry => OnePostCounted

\* C23: no call of get_access_token, init_photo_post, check_publish_status,
\* wait_for_publish or generate_post_text ends by an exception: every failure
\* is signalled by the failure result of the operation
C23_NoExceptionCrossesBoundary ==
    /\ tm.called => tm.result.kind # "raise"
    /\ ip.called => ip.ret.kind # "raise"
    /\ w.pc # "raised"
    /\ gen.ret # "raise"

\* ----------------------------------------------------- claims: variations
\* the first count presets
FirstPresets(count) ==
    {STYLE_TEMPLATES[k] : k \in (1..count) \cap (1..Len(STYLE_TEMPLATES))}

\* the position of a style in the preset list
preset_index(style) ==
    CHOOSE k \in 1..Len(STYLE_TEMPLATES) : STYLE_TEMPLATES[k] = style

\* C24: generate_multiple_variations returns at most count results (none for
\* a count below 1), each of a different preset among the first count
\* presets and in preset order; generate_post_text is called exactly once
\* for each of these presets and a preset whose generation failed is not in
\* the result
C24_VariationsWithinCount ==
    batch.pc = "done"
        => /\ Len(batch.results) <= (IF batch.count > 0 THEN batch.count ELSE 0)
           /\ \A k \in 1..Len(batch.results) :
                batch.results[k] \in FirstPresets(batch.count)
           /\ \A j, k \in 1..Len(batch.results) :
                j < k => preset_index(batch.results[j])
                            < preset_index(batch.results[k])
           /\ \A style \in FirstPresets(batch.count) :
                Cardinality({k \in 1..Len(batch.calls) :
                                batch.calls[k] = style}) = 1
           /\ \A k \in 1..Len(batch.results) :
                batch.results[k] \notin batch.failed

\* ------------------------------------------------ claims: refresh record
\* the last call of get_access_token made a refresh that reported success
RefreshSucceeded == tm.called /\ tm.refresh = "true"

\* C25: after a successful refresh the persisted record holds the access
\* token of the response, the refresh token of the response or, when the
\* response carries none, the one stored before, and an expiry of the
\* refresh time plus the lifetime the provider reported; get_access_token
\* returns the access token of the persisted record
C25_RefreshIsPersisted ==
    RefreshSucceeded
        => /\ file.kind = "record"
           /\ file.access_token = tm.resp.access_token
           /\ file.refresh_token = IF tm.resp.refresh_token = ABSENT
                                      THEN tm.fileBefore.refresh_token
                                      ELSE tm.resp.refresh_token
           /\ tm.resp.expires_in # ABSENT_INT
                => file.expires_at = isoformat(tm.nowAt + tm.resp.expires_in)
           /\ tm.result = Return(file.access_token)

\* the last call of get_access_token was made with an out-of-band token, or
\* found no record, an unreadable file, a record with no expires_at or a
\* record that had not expired
NoRefreshCase ==
    \/ oob # ""
    \/ tm.fileBefore.kind \in {"absent", "corrupt"}
    \/ /\ tm.fileBefore.kind = "record"
       /\ \/ tm.fileBefore.expires_at = NoExpiry
          \/ /\ tm.fileBefore.expires_at.tag = "iso"
             /\ tm.nowAt <= tm.fileBefore.expires_at.t

\* C26: get_access_token writes the credential file only inside a refresh;
\* a call with an out-of-band token, or on an absent or unreadable file, or
\* on a record that has no expires_at or has not expired, leaves the file
\* unchanged
C26_WritesOnlyInsideRefresh ==
    tm.called
        => /\ tm.refresh = "not_called"
                => (tm.writes = 0 /\ file = tm.fileBefore)
           /\ NoRefreshCase
                => /\ tm.refresh = "not_called"
                   /\ tm.writes = 0
                   /\ file = tm.fileBefore

\* a call with an out-of-band token on an expired record that could be
\* refreshed left the file as it was
C26_Witness ==
    /\ tm.called /\ oob # "" /\ ExpiredAtCall
    /\ ~Falsy(tm.fileBefore.refresh_token)
    /\ tm.result = Return(oob)
    /\ file = tm.fileBefore

\* ------------------------------------------------ claims: wait results
\* C27: every result of wait_for_publish has the status PUBLISH_COMPLETE,
\* FAILED or TIMEOUT; success is true exactly for PUBLISH_COMPLETE; a FAILED
\* result carries the fail_reason of the poll that reported FAILED, and a
\* TIMEOUT result carries the synthetic reason
C27_ResultShape ==
    w.pc = "done"
        => /\ w.result.status
                \in {STATUS_PUBLISH_COMPLETE, STATUS_FAILED, "TIMEOUT"}
           /\ w.result.success <=> w.result.status = STATUS_PUBLISH_COMPLETE
           /\ w.result.status = STATUS_FAILED
                => /\ wh.last.kind = "status"
                   /\ wh.last.status = STATUS_FAILED
                   /\ w.result.fail_reason = wh.last.fail_reason
           /\ w.result.status = "TIMEOUT"
                => w.result.fail_reason = TIMEOUT_RESULT.fail_reason

\* a wait returned FAILED with the reason the platform gave in the last poll
C27_Witness ==
    /\ w.pc = "done" /\ wh.polls >= 2
    /\ wh.last = Status(STATUS_FAILED, "rejected")
    /\ w.result = WaitResult(FALSE, STATUS_FAILED, "rejected")

\* a poll was made in this step
Polled == w.pc = "loop" /\ wh'.polls = wh.polls + 1

\* C28: a poll that returns no status is followed by a sleep of one interval
\* and the loop goes on, however many such polls came before; a poll that
\* reports PUBLISH_COMPLETE or FAILED ends the wait with that status,
\* however many polls returned no status before it
C28_FailedPollsAreNotCounted ==
    [][/\ (Polled /\ wh'.last.kind = "none")
            => /\ w' = w
               /\ now' >= now + w.interval
               /\ now' <= now + MaxPollTime + w.interval
       /\ (Polled /\ wh'.last.kind = "status"
                  /\ wh'.last.status \in {STATUS_PUBLISH_COMPLETE, STATUS_FAILED})
            => /\ w'.pc = "done"
               /\ w'.result.status = wh'.last.status]_vars

\* a wait returned PUBLISH_COMPLETE at a poll that followed polls which all
\* returned no status
C28_Witness ==
    /\ w.pc = "done" /\ wh.failed >= 2 /\ wh.polls = wh.failed + 1
    /\ wh.last.status = STATUS_PUBLISH_COMPLETE
    /\ w.result = WaitResult(TRUE, STATUS_PUBLISH_COMPLETE, "")

\* ------------------------------------------------ claims: termination
\* C29: wait_for_publish returns after finitely many polls; no poll is
\* started once the elapsed time has reached the timeout; when no poll took
\* time the number of polls is at most ceil(timeout / interval)
C29_WaitReturns ==
    /\ [][Polled => now - w.start < w.timeout]_vars
    /\ [](~wh.tookTime
            => (wh.polls = 0 \/ (wh.polls - 1) * w.interval < w.timeout))
    /\ (w.pc = "loop") ~> (w.pc = "done")

\* ------------------------------------------------ claims: generator result
\* the attempts that gave a reply with a body that passes validation
ValidAttempts == {k \in 1..Len(gen.outs) : gen.outs[k] = "valid"}

\* C30: generate_post_text returns the parse of the first reply that has a
\* body and passes validation and calls the service no more after it; it
\* returns None exactly when no attempt gave such a reply; the body and the
\* hashtags of the result are those of that one reply
C30_FirstValidReplyReturned ==
    gen.pc = "done"
        => /\ gen.ret = "post"
                => /\ ValidAttempts = {Len(gen.outs)}
                   /\ gen.calls = Len(gen.outs)
                   /\ gen.result = parse_response(gen.reply)
                   /\ attempt_outcome(Service("text", gen.reply)) = "valid"
           /\ gen.ret = "none" <=> ValidAttempts = {}

\* ------------------------------------------------ claims: order of a run
\* the product selected by the run has an image reference
HasImage == run.item # None /\ ~Falsy(run.store[run.item].image_url)

\* init_photo_post returned a publish_id
InitAccepted == ip.called /\ ip.ret.kind = "return" /\ ip.ret.value # None

\* C31: the steps of a run happen in the order selection, hosting,
\* generation, publish-init, polling, recording, each only after the one
\* before succeeded: hosting is requested only for a product with an image,
\* the generator is called only after hosting gave a URL, publish-init is
\* called only after the generator gave a post, a status poll is sent only
\* after init gave a publish_id, and the log and the statistics are written
\* only after the wait returned
C31_StepsInOrder ==
    /\ (run.pc = "host" \/ run.hosted) => HasImage
    /\ (run.pc = "generate" \/ run.gen_ret # "not_called") => run.hosted
    /\ (run.pc = "publish" \/ ip.called)
            => (run.gen_ret = "post" /\ ~run.dry_run)
    /\ (run.pc = "wait" \/ wh.polls > 0) => InitAccepted
    /\ (posts # <<>> \/ (run.pc # "idle" /\ products # run.store))
            => (run.pc = "done" /\ w.pc = "done" /\ wh.polls > 0)

\* a run went through all six steps
C31_Witness ==
    /\ run.pc = "done" /\ run.ret = "true"
    /\ HasImage /\ run.hosted /\ run.gen_ret = "post" /\ InitAccepted
    /\ wh.polls >= 2 /\ w.pc = "done"
    /\ Len(posts) = 1 /\ products # run.store

\* ------------------------------------------------ claims: the publish log
\* C32: the publish log is append-only: no step changes or removes an entry
\* written earlier, and a run appends at most one entry
C32_LogIsAppendOnly ==
    [][/\ Len(posts') >= Len(posts)
       /\ Len(posts') <= Len(posts) + 1
       /\ SubSeq(posts', 1, Len(posts)) = posts]_vars

\* a second run has appended its entry after the entry of a first run
C32_Witness ==
    /\ Len(posts) = 2
    /\ posts[1].status = "published"
    /\ posts[2].status = "failed"

\* C33: every log entry written by a run has the status published or failed
\* and carries the publish_id that init returned, which is not null; it has
\* the status published exactly when the wait returned PUBLISH_COMPLETE
C33_EntryStatusAndPublishId ==
    \A k \in 1..Len(posts) :
        /\ posts[k].status \in {"published", "failed"}
        /\ posts[k].tiktok_publish_id # None
        /\ InitAccepted /\ posts[k].tiktok_publish_id = ip.ret.value
        /\ posts[k].item_id = run.item
        /\ w.pc = "done"
        /\ posts[k].status = "published"
                <=> w.result.status = STATUS_PUBLISH_COMPLETE

\* a run whose wait returned FAILED wrote a failed entry with the publish_id
C33_Witness ==
    /\ run.pc = "done" /\ Len(posts) = 1
    /\ w.result.status = STATUS_FAILED
    /\ posts[1] = Post(run.item, "pub_1", "failed")
    /\ ip.ret.value = "pub_1"

\* ------------------------------------------------ claims: statistics
\* the number of published entries of the log for product i
published_count(i) ==
    Cardinality({k \in 1..Len(posts) :
                    posts[k].item_id = i /\ posts[k].status = "published"})

\* C34: after any sequence of runs made one at a time, with no ingestion and
\* no manual update between them, the post_count of every product is its
\* initial post_count plus the number of published entries logged for it,
\* and its last_posted_at is not null when that number is positive
C34_PostCountMatchesLog ==
    \A i \in ItemIds :
        products[i].present
            => /\ products[i].post_count
                    = ops.store0[i].post_count + published_count(i)
               /\ published_count(i) > 0
                    => products[i].last_posted_at # NULL_TIME

\* every active product of the store before the first run had post_count 0
\* and a null last_posted_at
FreshStore ==
    \A i \in ItemIds :
        (ops.store0[i].present /\ ops.store0[i].is_active)
            => /\ ops.store0[i].post_count = 0
               /\ ops.store0[i].last_posted_at = NULL_TIME

C36_EveryActiveProductSelected ==
    \A i \in ItemIds :
        (ops.store0[i].present /\ ops.store0[i].is_active)
            => <>(i \in ops.selected)

\* ------------------------------------------------ claims: deactivation
\* C37: a run sends no publish-init request for a product whose is_active
\* flag is false, whether the product was chosen by rotation or by the
\* product_id override
C37_NoInitForInactiveProduct ==
    (ip.called /\ ip.requests > 0 /\ run.item # None)
        => run.store[run.item].is_active

\* C38: a product that has been deactivated is not among the rows of
\* get_products_for_posting after any later operation; ingesting data for
\* its item_id again does not bring it back (update_product with is_active
\* is no operation of the store specification)
C38_DeactivatedStaysOut ==
    [][\A i \in ItemIds :
          (products[i].present /\ ~products[i].is_active)
              => i \notin posting_candidates(products')]_vars

\* ------------------------------------------------ claims: interleaved runs
\* both runs have returned success after publishing the same product
BothPublished ==
    /\ \A r \in Runs : pair[r].pc = "done" /\ pair[r].ret = "true"
    /\ pair[1].item = pair[2].item

\* the two runs read the product before either of them updated it
ReadsOverlapped == pair[1].post_count = pair[2].post_count

\* C39 (as stated): when two interleaved runs both publish the same product
\* successfully, its post_count ends exactly 2 above its value before the
\* runs and the log holds two published entries
C39_NoIncrementLost ==
    BothPublished
        => /\ products[pair[1].item].post_count
                = ops.store0[pair[1].item].post_count + 2
           /\ published_count(pair[1].item) = 2

\* C39 (amended): the log holds two published entries, and the post_count
\* ends 2 above its value before the runs when one run read the product
\* after the update of the other, and 1 above it when both runs read the
\* product before either update
C39_IncrementLostWhenReadsOverlap ==
    BothPublished
        => /\ published_count(pair[1].item) = 2
           /\ products[pair[1].item].post_count
                = ops.store0[pair[1].item].post_count
                    + (IF ReadsOverlapped THEN 1 ELSE 2)

\* two runs read the same row, both published, and one increment was lost
C39_Witness ==
    /\ BothPublished /\ ReadsOverlapped
    /\ published_count(pair[1].item) = 2
    /\ products[pair[1].item].post_count
            = ops.store0[pair[1].item].post_count + 1

====
